---- MODULE Spec2Model ----
(***************************************************************************)
(* Verification model of the localbase daemon:                             *)
(*   - the admission pool of pool.go (ConnectionPoolImpl),                 *)
(*   - the domain orchestrator with one registry lock (LocalBase, the      *)
(*     variant that keeps *Record values in lb.records),                   *)
(*   - the domain orchestrator of core.go (LocalBase with domains and      *)
(*     mdnsServers maps).                                                  *)
(* Each component has its own next-state relation and specification; the   *)
(* variables of the other components stay unchanged under it.              *)
(***************************************************************************)
EXTENDS Integers, Naturals, Sequences, FiniteSets, TLC

(***************************************************************************)
(* Bounds                                                                  *)
(***************************************************************************)
\* capacity handed to NewConnectionPool (tests use 2 and 5, the server 100)
MaxConnections == 2
\* number of connections offered to the pool beyond its capacity
ExtraConns == 1
\* number of advertisement registrations the collaborator hands out
MaxHandles == 4
\* number of client calls that run at the same time in the core.go
\* orchestrator (each is a handler goroutine of the daemon)
MaxClients == 2
\* number of connections the daemon's protocol handler serves
MaxPhConns == 1

Conns == 1 .. (MaxConnections + ExtraConns)

VARIABLES
    \* ---- admission pool (pool.go) ----
    pc,            \* per connection: position of Accept / handleConnection
    semaphore,     \* len(p.semaphore)
    activeCount,   \* p.activeCount
    wg,            \* counter of p.wg
    ctxDone,       \* p.ctx is cancelled
    connClosed,    \* per connection: number of conn.Close() calls made by the pool
    acceptResult,  \* per connection: what Accept returned
    outcome,       \* per connection: how p.handler ended
    closePc,       \* position of Close()
    waiterDone,    \* the channel "done" of Close() is closed
    closeResult,   \* what Close() returned
    \* ---- orchestrator with one registry lock (lb.records) ----
    records,       \* lb.records: key -> Record
    localIP,       \* lb.localIP
    servers,       \* advertisement collaborator: handle -> registration
    leaked,        \* hosts still announced by registrations no record holds
    routes,        \* proxy collaborator: domain -> port of its route
    lbLast,        \* the last orchestrator operation: arguments, result, calls
    \* ---- orchestrator of core.go ----
    domains,       \* l.domains: key -> port
    mdnsServers,   \* l.mdnsServers: key -> registration (its address)
    coreIP,        \* l.localIP
    orphans,       \* registrations announced that nothing refers to any more
    caddy,         \* proxy collaborator: domain -> port of its server block
    call,          \* per client: the Add/Remove/Shutdown call it is in
    refresh,       \* the goroutine of startBroadcast; under: the addresses
                   \* its RegisterProxy calls of the current tick were given
    \* ---- protocol handler and daemon (ProtocolHandler, Server) ----
    hPc,           \* per connection: position of HandleConnection
    hReq,          \* per connection: what ReadBytes delivered
    hOut,          \* per connection: the Response that is to be written
    hResp,         \* per connection: the Responses written and flushed
    hCalls,        \* per connection: the calls made on p.service
    hReads,        \* per connection: number of reader.ReadBytes calls
    trig,          \* per connection: the goroutine running p.shutdownFunc
    srvPc,         \* position of Server.Start / Server.shutdown
    rootDone,      \* the context given to Start is cancelled
    listenerOpen,  \* s.listener is not closed
    poolCancelled, \* the pool of the daemon has been told to close
    acceptLoop,    \* the goroutine of Server.acceptConnections
    refreshLoop    \* the goroutine of startBroadcast started by Start

poolVars == <<pc, semaphore, activeCount, wg, ctxDone, connClosed,
              acceptResult, outcome, closePc, waiterDone, closeResult>>

lbVars == <<records, localIP, servers, leaked, routes, lbLast>>

coreVars == <<domains, mdnsServers, coreIP, orphans, caddy, call, refresh>>

loopVars == <<acceptLoop, refreshLoop>>

phVars == <<hPc, hReq, hOut, hResp, hCalls, hReads, trig, srvPc, rootDone,
            listenerOpen, poolCancelled, loopVars>>

notPoolVars == <<lbVars, coreVars, phVars>>

notLbVars == <<poolVars, coreVars, phVars>>

notCoreVars == <<poolVars, lbVars, phVars>>

notPhVars == <<poolVars, lbVars, coreVars>>

vars == <<poolVars, lbVars, coreVars, phVars>>

(***************************************************************************)
(* Strings.  A string is a sequence of atoms; an atom is a word of letters *)
(* and digits, or one of the characters ".", "-", " ".  The operators are  *)
(* those of Go's package strings that the orchestrators and validators use.*)
(***************************************************************************)
Words == {"myapp", "api", "local", "localhost", "LocalHost", "a64"}

\* len() of an atom in bytes ("a64" stands for strings.Repeat("a", 64))
AtomLen(a) ==
    CASE a = "myapp" -> 5
      [] a = "api" -> 3
      [] a = "local" -> 5
      [] a = "localhost" -> 9
      [] a = "LocalHost" -> 9
      [] a = "a64" -> 64
      [] OTHER -> 1

\* strings.ToLower on an atom (strings.EqualFold compares case-insensitively)
ToLower(a) == IF a = "LocalHost" THEN "localhost" ELSE a

RECURSIVE StrLen(_)
StrLen(s) == IF s = <<>> THEN 0 ELSE AtomLen(Head(s)) + StrLen(Tail(s))

HasPrefix(s, pre) ==
    Len(s) >= Len(pre) /\ SubSeq(s, 1, Len(pre)) = pre

HasSuffix(s, suf) ==
    Len(s) >= Len(suf) /\ SubSeq(s, Len(s) - Len(suf) + 1, Len(s)) = suf

TrimSuffix(s, suf) ==
    IF HasSuffix(s, suf) THEN SubSeq(s, 1, Len(s) - Len(suf)) ELSE s

RECURSIVE TrimLeft(_)
TrimLeft(s) ==
    IF s # <<>> /\ Head(s) = " " THEN TrimLeft(Tail(s)) ELSE s

RECURSIVE TrimRight(_)
TrimRight(s) ==
    IF s # <<>> /\ s[Len(s)] = " " THEN TrimRight(SubSeq(s, 1, Len(s) - 1))
    ELSE s

TrimSpace(s) == TrimRight(TrimLeft(s))

\* strings.Split(s, "."): the labels of s; Split("") is one empty label
RECURSIVE SplitFrom(_, _)
SplitFrom(s, cur) ==
    IF s = <<>> THEN <<cur>>
    ELSE IF Head(s) = "." THEN <<cur>> \o SplitFrom(Tail(s), <<>>)
    ELSE SplitFrom(Tail(s), Append(cur, Head(s)))

Split(s) == SplitFrom(s, <<>>)

\* the suffix ".local"
DotLocal == <<".", "local">>

(***************************************************************************)
(* Validator: validator.go                                                 *)
(***************************************************************************)
\* domainRegex applied to one label: [a-zA-Z0-9]([a-zA-Z0-9\-]{0,61}[a-zA-Z0-9])?
LabelMatches(label) ==
    /\ label # <<>>
    /\ StrLen(label) <= 63
    /\ \A i \in 1 .. Len(label) : label[i] \in Words \cup {"-"}
    /\ label[1] \in Words
    /\ label[Len(label)] \in Words

\* domainRegex.MatchString(domain): labels joined by single dots
RegexMatches(domain) ==
    \A i \in 1 .. Len(Split(domain)) : LabelMatches(Split(domain)[i])

\* the checks of the loop over labels, for one label
LabelError(label) ==
    IF Len(label) = 0 THEN "empty label"
    ELSE IF StrLen(label) > 63 THEN "label too long"
    ELSE IF HasPrefix(label, <<"-">>) \/ HasSuffix(label, <<"-">>)
        THEN "label hyphen"
    ELSE "nil"

\* the loop over labels returns at the first label that fails
RECURSIVE LabelsError(_)
LabelsError(labels) ==
    IF labels = <<>> THEN "nil"
    ELSE IF LabelError(Head(labels)) # "nil" THEN LabelError(Head(labels))
    ELSE LabelsError(Tail(labels))

ReservedNames == {"localhost", "local", "example", "test", "invalid"}

\* the label as one lower-case word when it is a single atom
LabelIsReserved(label) ==
    Len(label) = 1 /\ ToLower(label[1]) \in ReservedNames

\* DomainValidator.ValidateDomain of validator.go: "nil" or the error
ValidateDomain(domain) ==
    LET d == TrimSpace(domain) IN
    IF d = <<>> THEN "domain cannot be empty"
    ELSE IF HasPrefix(d, <<".">>) \/ HasSuffix(d, <<".">>)
        THEN "leading or trailing dot"
    ELSE IF StrLen(d) > 253 THEN "domain too long"
    ELSE IF LabelsError(Split(d)) # "nil" THEN LabelsError(Split(d))
    ELSE IF ~RegexMatches(d) THEN "invalid domain format"
    ELSE IF LabelIsReserved(Split(d)[1]) THEN "reserved"
    ELSE "nil"

\* DomainValidator.ValidatePort of validator.go: "nil" or the error
ValidatePort(port) ==
    IF port < 1 \/ port > 65535 THEN "port out of range"
    ELSE IF port < 1024 THEN "well-known port"
    ELSE "nil"

(***************************************************************************)
(* Admission pool: pool.go                                                 *)
(***************************************************************************)
Outcomes == {"return", "error", "panic"}

PoolInit ==
    /\ pc = [c \in Conns |-> "new"]
    /\ semaphore = 0
    /\ activeCount = 0
    /\ wg = 0
    /\ ctxDone = FALSE
    /\ connClosed = [c \in Conns |-> 0]
    /\ acceptResult = [c \in Conns |-> "none"]
    /\ outcome = [c \in Conns |-> "none"]
    /\ closePc = "idle"
    /\ waiterDone = FALSE
    /\ closeResult = [status |-> "none", active |-> 0]

\* an Accept without the first select: the cancellation is looked at only
\* together with the semaphore
AcceptCheckNoFirstSelect(c) ==
    /\ pc[c] = "new"
    /\ \A b \in Conns : b < c => pc[b] # "new"
    /\ pc' = [pc EXCEPT ![c] = "acc_select"]
    /\ UNCHANGED <<connClosed, acceptResult>>
    /\ UNCHANGED <<semaphore, activeCount, wg, ctxDone, outcome, closePc,
                   waiterDone, closeResult>>
    /\ UNCHANGED notPoolVars

\* Accept, first select: case <-p.ctx.Done() / default
\* (connections are numbered in the order in which they are offered)
AcceptCheck(c) ==
    /\ pc[c] = "new"
    /\ \A b \in Conns : b < c => pc[b] # "new"
    /\ IF ctxDone
         THEN /\ connClosed' = [connClosed EXCEPT ![c] = @ + 1]
              /\ acceptResult' = [acceptResult EXCEPT ![c] = "shutting_down"]
              /\ pc' = [pc EXCEPT ![c] = "rejected"]
         ELSE /\ pc' = [pc EXCEPT ![c] = "acc_select"]
              /\ UNCHANGED <<connClosed, acceptResult>>
    /\ UNCHANGED <<semaphore, activeCount, wg, ctxDone, outcome, closePc,
                   waiterDone, closeResult>>
    /\ UNCHANGED notPoolVars

\* an acquire that does not look at the capacity of the channel
SelectAcquireUnbounded(c) ==
    /\ semaphore' = semaphore + 1
    /\ pc' = [pc EXCEPT ![c] = "acc_count"]
    /\ UNCHANGED <<connClosed, acceptResult>>

\* Accept, second select, case p.semaphore <- struct{}{}
SelectAcquire(c) ==
    /\ semaphore < MaxConnections
    /\ semaphore' = semaphore + 1
    /\ pc' = [pc EXCEPT ![c] = "acc_count"]
    /\ UNCHANGED <<connClosed, acceptResult>>

\* Accept, second select, case <-p.ctx.Done()
SelectDone(c) ==
    /\ ctxDone
    /\ connClosed' = [connClosed EXCEPT ![c] = @ + 1]
    /\ acceptResult' = [acceptResult EXCEPT ![c] = "shutting_down"]
    /\ pc' = [pc EXCEPT ![c] = "rejected"]
    /\ UNCHANGED semaphore

\* a rejection that forgets to close the offered connection
SelectDefaultNoClose(c) ==
    /\ ~(semaphore < MaxConnections)
    /\ ~ctxDone
    /\ acceptResult' = [acceptResult EXCEPT ![c] = "pool_full"]
    /\ pc' = [pc EXCEPT ![c] = "rejected"]
    /\ UNCHANGED <<semaphore, connClosed>>

\* Accept, second select, default: taken only when no other case is ready
SelectDefault(c) ==
    /\ ~(semaphore < MaxConnections)
    /\ ~ctxDone
    /\ connClosed' = [connClosed EXCEPT ![c] = @ + 1]
    /\ acceptResult' = [acceptResult EXCEPT ![c] = "pool_full"]
    /\ pc' = [pc EXCEPT ![c] = "rejected"]
    /\ UNCHANGED semaphore

\* Accept, second select: Go picks any ready case, default when none is
AcceptSelect(c) ==
    /\ pc[c] = "acc_select"
    /\ \/ SelectAcquire(c)
       \/ SelectDone(c)
       \/ SelectDefault(c)
    /\ UNCHANGED <<activeCount, wg, ctxDone, outcome, closePc, waiterDone,
                   closeResult>>
    /\ UNCHANGED notPoolVars

\* atomic.AddInt32(&p.activeCount, 1)
AcceptCount(c) ==
    /\ pc[c] = "acc_count"
    /\ activeCount' = activeCount + 1
    /\ pc' = [pc EXCEPT ![c] = "acc_wg"]
    /\ UNCHANGED <<semaphore, wg, ctxDone, connClosed, acceptResult, outcome,
                   closePc, waiterDone, closeResult>>
    /\ UNCHANGED notPoolVars

\* p.wg.Add(1)
AcceptWgAdd(c) ==
    /\ pc[c] = "acc_wg"
    /\ wg' = wg + 1
    /\ pc' = [pc EXCEPT ![c] = "acc_go"]
    /\ UNCHANGED <<semaphore, activeCount, ctxDone, connClosed, acceptResult,
                   outcome, closePc, waiterDone, closeResult>>
    /\ UNCHANGED notPoolVars

\* go p.handleConnection(conn); return nil
AcceptSpawn(c) ==
    /\ pc[c] = "acc_go"
    /\ acceptResult' = [acceptResult EXCEPT ![c] = "ok"]
    /\ pc' = [pc EXCEPT ![c] = "h_run"]
    /\ UNCHANGED <<semaphore, activeCount, wg, ctxDone, connClosed, outcome,
                   closePc, waiterDone, closeResult>>
    /\ UNCHANGED notPoolVars

\* handleConnection: p.handler(p.ctx, conn) returns nil, returns an error or
\* panics; in all three cases the deferred function runs next
HandlerEnds(c) ==
    /\ pc[c] = "h_run"
    /\ \E o \in Outcomes : outcome' = [outcome EXCEPT ![c] = o]
    /\ pc' = [pc EXCEPT ![c] = "d_close"]
    /\ UNCHANGED <<semaphore, activeCount, wg, ctxDone, connClosed,
                   acceptResult, closePc, waiterDone, closeResult>>
    /\ UNCHANGED notPoolVars

\* a deferred function that does not close the connection before it gives
\* the slot back
DeferCloseForgotten(c) ==
    /\ pc[c] = "d_close"
    /\ pc' = [pc EXCEPT ![c] = "d_sem"]
    /\ UNCHANGED <<semaphore, activeCount, wg, ctxDone, connClosed, acceptResult,
                   outcome, closePc, waiterDone, closeResult>>
    /\ UNCHANGED notPoolVars

\* a close that is left out when the handler panicked (not in a defer)
DeferCloseNoPanic(c) ==
    /\ pc[c] = "d_close"
    /\ connClosed' = [connClosed EXCEPT ![c] = IF outcome[c] = "panic" THEN @
                                                                       ELSE @ + 1]
    /\ pc' = [pc EXCEPT ![c] = "d_sem"]
    /\ UNCHANGED <<semaphore, activeCount, wg, ctxDone, acceptResult, outcome,
                   closePc, waiterDone, closeResult>>
    /\ UNCHANGED notPoolVars

\* deferred: conn.Close()
DeferClose(c) ==
    /\ pc[c] = "d_close"
    /\ connClosed' = [connClosed EXCEPT ![c] = @ + 1]
    /\ pc' = [pc EXCEPT ![c] = "d_sem"]
    /\ UNCHANGED <<semaphore, activeCount, wg, ctxDone, acceptResult, outcome,
                   closePc, waiterDone, closeResult>>
    /\ UNCHANGED notPoolVars

\* a release that is skipped when the handler panicked (not in a defer)
DeferReleaseNoPanic(c) ==
    /\ pc[c] = "d_sem"
    /\ semaphore' = IF outcome[c] = "panic" THEN semaphore ELSE semaphore - 1
    /\ pc' = [pc EXCEPT ![c] = "d_count"]
    /\ UNCHANGED <<activeCount, wg, ctxDone, connClosed, acceptResult, outcome,
                   closePc, waiterDone, closeResult>>
    /\ UNCHANGED notPoolVars

\* deferred: <-p.semaphore
DeferRelease(c) ==
    /\ pc[c] = "d_sem"
    /\ semaphore' = semaphore - 1
    /\ pc' = [pc EXCEPT ![c] = "d_count"]
    /\ UNCHANGED <<activeCount, wg, ctxDone, connClosed, acceptResult, outcome,
                   closePc, waiterDone, closeResult>>
    /\ UNCHANGED notPoolVars

\* a decrement that is left out when the handler returned an error
DeferCountSkipsOnError(c) ==
    /\ pc[c] = "d_count"
    /\ activeCount' = IF outcome[c] = "error" THEN activeCount
                                               ELSE activeCount - 1
    /\ pc' = [pc EXCEPT ![c] = "d_wg"]
    /\ UNCHANGED <<semaphore, wg, ctxDone, connClosed, acceptResult, outcome,
                   closePc, waiterDone, closeResult>>
    /\ UNCHANGED notPoolVars

\* deferred: atomic.AddInt32(&p.activeCount, -1)
DeferCount(c) ==
    /\ pc[c] = "d_count"
    /\ activeCount' = activeCount - 1
    /\ pc' = [pc EXCEPT ![c] = "d_wg"]
    /\ UNCHANGED <<semaphore, wg, ctxDone, connClosed, acceptResult, outcome,
                   closePc, waiterDone, closeResult>>
    /\ UNCHANGED notPoolVars

\* deferred: p.wg.Done(), then recover() swallows a panic of the handler
DeferWgDone(c) ==
    /\ pc[c] = "d_wg"
    /\ wg' = wg - 1
    /\ pc' = [pc EXCEPT ![c] = "done"]
    /\ UNCHANGED <<semaphore, activeCount, ctxDone, connClosed, acceptResult,
                   outcome, closePc, waiterDone, closeResult>>
    /\ UNCHANGED notPoolVars

\* ActiveConnections()
ActiveConnections == activeCount

\* the parent context handed to NewConnectionPool is cancelled
ParentCancel ==
    /\ ~ctxDone
    /\ ctxDone' = TRUE
    /\ UNCHANGED <<pc, semaphore, activeCount, wg, connClosed, acceptResult,
                   outcome, closePc, waiterDone, closeResult>>
    /\ UNCHANGED notPoolVars

\* Close: p.cancel(), then start the goroutine that waits on p.wg
CloseCancel ==
    /\ closePc = "idle"
    /\ ctxDone' = TRUE
    /\ closePc' = "waiting"
    /\ UNCHANGED <<pc, semaphore, activeCount, wg, connClosed, acceptResult,
                   outcome, waiterDone, closeResult>>
    /\ UNCHANGED notPoolVars

\* Close: the goroutine's p.wg.Wait() returns and it closes "done"
CloseWaiter ==
    /\ closePc = "waiting"
    /\ ~waiterDone
    /\ wg = 0
    /\ waiterDone' = TRUE
    /\ UNCHANGED <<pc, semaphore, activeCount, wg, ctxDone, connClosed,
                   acceptResult, outcome, closePc, closeResult>>
    /\ UNCHANGED notPoolVars

\* a Close that reports success without waiting for the handlers
CloseGracefulNoWait ==
    /\ closePc = "waiting"
    /\ closePc' = "returned"
    /\ closeResult' = [status |-> "ok", active |-> 0]
    /\ UNCHANGED <<pc, semaphore, activeCount, wg, ctxDone, connClosed,
                   acceptResult, outcome, waiterDone>>
    /\ UNCHANGED notPoolVars

\* Close: select case <-done
CloseGraceful ==
    /\ closePc = "waiting"
    /\ waiterDone
    /\ closePc' = "returned"
    /\ closeResult' = [status |-> "ok", active |-> 0]
    /\ UNCHANGED <<pc, semaphore, activeCount, wg, ctxDone, connClosed,
                   acceptResult, outcome, waiterDone>>
    /\ UNCHANGED notPoolVars

\* Close: select case <-time.After(30 * time.Second)
CloseTimeout ==
    /\ closePc = "waiting"
    /\ closePc' = "returned"
    /\ closeResult' = [status |-> "timeout", active |-> ActiveConnections]
    /\ UNCHANGED <<pc, semaphore, activeCount, wg, ctxDone, connClosed,
                   acceptResult, outcome, waiterDone>>
    /\ UNCHANGED notPoolVars

PoolNext ==
    \/ \E c \in Conns : AcceptCheck(c)
    \/ \E c \in Conns : AcceptSelect(c)
    \/ \E c \in Conns : AcceptCount(c)
    \/ \E c \in Conns : AcceptWgAdd(c)
    \/ \E c \in Conns : AcceptSpawn(c)
    \/ \E c \in Conns : HandlerEnds(c)
    \/ \E c \in Conns : DeferClose(c)
    \/ \E c \in Conns : DeferRelease(c)
    \/ \E c \in Conns : DeferCount(c)
    \/ \E c \in Conns : DeferWgDone(c)
    \/ ParentCancel
    \/ CloseCancel
    \/ CloseWaiter
    \/ CloseGraceful
    \/ CloseTimeout

(***************************************************************************)
(* Domain orchestrator with one registry lock: LocalBase with lb.records.  *)
(* Every method holds lb.mu from entry to return, so each is one step.     *)
(* The collaborators (bonjour, the Caddy client) are black boxes whose     *)
(* calls can fail; the failures are inputs of the steps.                   *)
(***************************************************************************)
DomainInputs ==
    { <<"myapp">>, <<"myapp", ".", "local">>, <<" ", "myapp">>, <<"localhost">> }

PortInputs == {80, 3000}

NoCall == <<>>

Call(fn, h, ok) == [fn |-> fn, h |-> h, ok |-> ok]

LbInit ==
    /\ records = <<>>
    /\ localIP = "192.168.1.10"
    /\ servers = <<>>
    /\ leaked = {}
    /\ routes = <<>>
    /\ lbLast = [op |-> "none", domain |-> <<>>, err |-> "nil", calls |-> NoCall]

\* lb.records[key] = value (the key may be new)
MapSet(m, key, value) ==
    [k \in DOMAIN m \cup {key} |-> IF k = key THEN value ELSE m[k]]

\* delete(lb.records, key)
MapDelete(m, key) == [k \in DOMAIN m \ {key} |-> m[k]]

\* The handles (*bonjour.Server pointers) in use are those a record points
\* to.  A registration that no record points to is garbage for the program:
\* its handle can be handed out again, and if it was never torn down its host
\* stays announced for good (leaked).
Handles == 1 .. MaxHandles

\* the handles that RegisterProxy can hand out next, given registrations srv
\* and the handles recs still points to
FreeHandles(srv, held) == Handles \ (DOMAIN srv \cup held)

\* the address getLocalIP() finds for this orchestrator
LbIPs == {"192.168.1.10"}

HeldBy(recs) == {recs[k].server : k \in DOMAIN recs}

NextHandle(srv, held) ==
    CHOOSE h \in FreeHandles(srv, held) :
        \A g \in FreeHandles(srv, held) : h <= g

\* the registrations of srv that the records recs still point to
Collect(srv, recs) == [h \in DOMAIN srv \cap HeldBy(recs) |-> srv[h]]

\* the hosts of the registrations of srv that no record of recs points to
\* and that were not torn down
Leaks(srv, recs) ==
    {srv[h].host : h \in {g \in DOMAIN srv \ HeldBy(recs) : srv[g].active}}

\* bonjour.RegisterProxy succeeded: the collaborator holds one more
\* registration under handle h
Registered(srv, h, host, ip) ==
    MapSet(srv, h, [host |-> host, active |-> TRUE])

\* (*bonjour.Server).Shutdown() on handle h of registrations srv; when the
\* teardown fails the registration stays announced
ServerShutdown(srv, h, downOk) ==
    [g \in DOMAIN srv |->
        IF g = h /\ downOk THEN [srv[g] EXCEPT !.active = FALSE] ELSE srv[g]]

\* clean, fullDomain, fullHost, service of Add
Clean(domain) == TrimSpace(domain)
FullDomain(domain) == Clean(domain) \o DotLocal
FullHost(domain) == FullDomain(domain) \o <<".">>
Service(domain) == <<"_">> \o Clean(domain) \o <<".", "_tcp">>

\* List: the keys of lb.records (this List returns names only, in no order)
LbList == DOMAIN records

\* an Add that forgets the compensating s1.Shutdown() when Caddy fails
LbAddNoRollback(domain, port, regOk, routeOk, downOk) ==
    /\ ValidateDomain(domain) = "nil" /\ ValidatePort(port) = "nil"
    /\ FullDomain(domain) \notin DOMAIN records
    /\ regOk /\ ~routeOk
    /\ FreeHandles(servers, HeldBy(records)) # {}
    /\ leaked' = leaked \cup {FullHost(domain)}
    /\ lbLast' = [op |-> "Add", domain |-> domain,
                  err |-> "failed to add Caddy server block",
                  calls |-> << Call("RegisterProxy",
                                    NextHandle(servers, HeldBy(records)), TRUE),
                               Call("AddServerBlock", 0, FALSE) >>]
    /\ UNCHANGED <<records, localIP, servers, routes>>
    /\ UNCHANGED notLbVars

\* an Add that goes to the collaborators without validating its inputs
LbAddUnvalidated(domain, port, regOk, routeOk, downOk) ==
    LET h == NextHandle(servers, HeldBy(records))
        made == Registered(servers, h, FullHost(domain), localIP)
        result(err, calls) == [op |-> "Add", domain |-> domain,
                               err |-> err, calls |-> calls]
    IN
    /\ IF FullDomain(domain) \in DOMAIN records
         THEN /\ lbLast' = result("already registered", NoCall)
              /\ UNCHANGED <<records, localIP, servers, leaked, routes>>
       ELSE IF ~regOk
         THEN /\ lbLast' = result("failed to register mDNS service",
                                  <<Call("RegisterProxy", 0, FALSE)>>)
              /\ UNCHANGED <<records, localIP, servers, leaked, routes>>
       ELSE IF ~routeOk
         THEN \* the record is stored, then s1.Shutdown() and delete
              /\ FreeHandles(servers, HeldBy(records)) # {}
              /\ servers' = Collect(ServerShutdown(made, h, downOk), records)
              /\ leaked' = leaked \cup Leaks(ServerShutdown(made, h, downOk),
                                              records)
              /\ lbLast' = result("failed to add Caddy server block",
                                  << Call("RegisterProxy", h, TRUE),
                                     Call("AddServerBlock", 0, FALSE),
                                     Call("Shutdown", h, downOk) >>)
              /\ UNCHANGED <<records, localIP, routes>>
       ELSE   /\ FreeHandles(servers, HeldBy(records)) # {}
              /\ servers' = made
              /\ records' = MapSet(records, FullDomain(domain),
                                   [service |-> Service(domain),
                                    host |-> FullHost(domain),
                                    port |-> port, server |-> h])
              /\ routes' = MapSet(routes, FullDomain(domain), port)
              /\ lbLast' = result("nil",
                                  << Call("RegisterProxy", h, TRUE),
                                     Call("AddServerBlock", 0, TRUE) >>)
              /\ UNCHANGED <<localIP, leaked>>
    /\ UNCHANGED notLbVars

\* Add(ctx, domain, port); regOk, routeOk, downOk: whether RegisterProxy,
\* AddServerBlock and the rollback's Shutdown succeed
LbAdd(domain, port, regOk, routeOk, downOk) ==
    LET h == NextHandle(servers, HeldBy(records))
        made == Registered(servers, h, FullHost(domain), localIP)
        result(err, calls) == [op |-> "Add", domain |-> domain,
                               err |-> err, calls |-> calls]
    IN
    /\ IF ValidateDomain(domain) # "nil"
         THEN /\ lbLast' = result("domain validation failed", NoCall)
              /\ UNCHANGED <<records, localIP, servers, leaked, routes>>
       ELSE IF ValidatePort(port) # "nil"
         THEN /\ lbLast' = result("port validation failed", NoCall)
              /\ UNCHANGED <<records, localIP, servers, leaked, routes>>
       ELSE IF FullDomain(domain) \in DOMAIN records
         THEN /\ lbLast' = result("already registered", NoCall)
              /\ UNCHANGED <<records, localIP, servers, leaked, routes>>
       ELSE IF ~regOk
         THEN /\ lbLast' = result("failed to register mDNS service",
                                  <<Call("RegisterProxy", 0, FALSE)>>)
              /\ UNCHANGED <<records, localIP, servers, leaked, routes>>
       ELSE IF ~routeOk
         THEN \* the record is stored, then s1.Shutdown() and delete
              /\ FreeHandles(servers, HeldBy(records)) # {}
              /\ servers' = Collect(ServerShutdown(made, h, downOk), records)
              /\ leaked' = leaked \cup Leaks(ServerShutdown(made, h, downOk),
                                              records)
              /\ lbLast' = result("failed to add Caddy server block",
                                  << Call("RegisterProxy", h, TRUE),
                                     Call("AddServerBlock", 0, FALSE),
                                     Call("Shutdown", h, downOk) >>)
              /\ UNCHANGED <<records, localIP, routes>>
       ELSE   /\ FreeHandles(servers, HeldBy(records)) # {}
              /\ servers' = made
              /\ records' = MapSet(records, FullDomain(domain),
                                   [service |-> Service(domain),
                                    host |-> FullHost(domain),
                                    port |-> port, server |-> h])
              /\ routes' = MapSet(routes, FullDomain(domain), port)
              /\ lbLast' = result("nil",
                                  << Call("RegisterProxy", h, TRUE),
                                     Call("AddServerBlock", 0, TRUE) >>)
              /\ UNCHANGED <<localIP, leaked>>
    /\ UNCHANGED notLbVars

\* a Remove that returns the Caddy error instead of going on
LbRemoveStrict(domain, downOk, routeOk) ==
    LET h == records[domain].server
        result(err) == [op |-> "Remove", domain |-> domain,
                        err |-> err,
                        calls |-> << Call("Shutdown", h, downOk),
                                     Call("RemoveServerBlock", 0, routeOk) >>]
    IN
    /\ domain \in DOMAIN records
    /\ IF routeOk
         THEN /\ routes' = MapDelete(routes, domain)
              /\ records' = MapDelete(records, domain)
              /\ servers' = Collect(ServerShutdown(servers, h, downOk),
                                    MapDelete(records, domain))
              /\ leaked' = leaked \cup Leaks(ServerShutdown(servers, h, downOk),
                                              MapDelete(records, domain))
              /\ lbLast' = result("nil")
         ELSE /\ UNCHANGED <<routes, records, leaked>>
              /\ servers' = ServerShutdown(servers, h, downOk)
              /\ lbLast' = result("failed to remove Caddy server block")
    /\ UNCHANGED localIP
    /\ UNCHANGED notLbVars

\* a Remove that treats an absent domain as removed and clears its route
LbRemoveIdempotent(domain, downOk, routeOk) ==
    LET result(err, calls) == [op |-> "Remove", domain |-> domain,
                               err |-> err, calls |-> calls]
    IN
    /\ IF domain \notin DOMAIN records
         THEN /\ lbLast' = result("nil", <<Call("RemoveServerBlock", 0, routeOk)>>)
              /\ routes' = IF routeOk THEN MapDelete(routes, domain) ELSE routes
              /\ UNCHANGED <<records, servers, leaked>>
         ELSE /\ servers' = Collect(ServerShutdown(servers, records[domain].server,
                                                   downOk),
                                    MapDelete(records, domain))
              /\ leaked' = leaked \cup
                              Leaks(ServerShutdown(servers, records[domain].server,
                                                   downOk),
                                    MapDelete(records, domain))
              /\ routes' = IF routeOk THEN MapDelete(routes, domain) ELSE routes
              /\ records' = MapDelete(records, domain)
              /\ lbLast' = result("nil",
                                  << Call("Shutdown", records[domain].server, downOk),
                                     Call("RemoveServerBlock", 0, routeOk) >>)
    /\ UNCHANGED localIP
    /\ UNCHANGED notLbVars

\* Remove(ctx, domain): the lookup uses the argument as it was given;
\* downOk, routeOk: whether Shutdown and RemoveServerBlock succeed
LbRemove(domain, downOk, routeOk) ==
    LET result(err, calls) == [op |-> "Remove", domain |-> domain,
                               err |-> err, calls |-> calls]
    IN
    /\ IF domain \notin DOMAIN records
         THEN /\ lbLast' = result("not registered", NoCall)
              /\ UNCHANGED <<records, servers, leaked, routes>>
         ELSE /\ servers' = Collect(ServerShutdown(servers, records[domain].server,
                                                   downOk),
                                    MapDelete(records, domain))
              /\ leaked' = leaked \cup
                              Leaks(ServerShutdown(servers, records[domain].server,
                                                   downOk),
                                    MapDelete(records, domain))
              /\ routes' = IF routeOk THEN MapDelete(routes, domain) ELSE routes
              /\ records' = MapDelete(records, domain)
              /\ lbLast' = result("nil",
                                  << Call("Shutdown", records[domain].server, downOk),
                                     Call("RemoveServerBlock", 0, routeOk) >>)
    /\ UNCHANGED localIP
    /\ UNCHANGED notLbVars

\* the Shutdown() calls of a loop over lb.records; stuck: the keys whose
\* teardown fails
RECURSIVE ShutdownAll(_, _, _)
ShutdownAll(srv, keys, stuck) ==
    IF keys = {} THEN srv
    ELSE LET k == CHOOSE x \in keys : TRUE IN
         ShutdownAll(ServerShutdown(srv, records[k].server, k \notin stuck),
                     keys \ {k}, stuck)

RECURSIVE ShutdownCalls(_, _)
ShutdownCalls(keys, stuck) ==
    IF keys = {} THEN <<>>
    ELSE LET k == CHOOSE x \in keys : TRUE IN
         <<Call("Shutdown", records[k].server, k \notin stuck)>>
             \o ShutdownCalls(keys \ {k}, stuck)

\* Shutdown(ctx): shuts every server down, clears the Caddy server blocks
\* and returns; lb.records is not touched.  clearOk: ClearAllServerBlocks
\* succeeds
LbShutdown(stuck, clearOk) ==
    /\ servers' = ShutdownAll(servers, DOMAIN records, stuck)
    /\ routes' = IF clearOk THEN <<>> ELSE routes
    /\ lbLast' = [op |-> "Shutdown", domain |-> <<>>,
                  err |-> IF clearOk THEN "nil" ELSE "shutdown errors",
                  calls |-> ShutdownCalls(DOMAIN records, stuck)
                            \o <<Call("ClearAllServerBlocks", 0, clearOk)>>]
    /\ UNCHANGED <<records, localIP, leaked>>
    /\ UNCHANGED notLbVars

\* the handles RegisterProxy hands out in one pass of broadcastAll, to the
\* keys whose re-registration succeeds; free: the handles not in use
RECURSIVE NewHandles(_, _)
NewHandles(keys, free) ==
    IF keys = {} THEN <<>>
    ELSE LET k == CHOOSE x \in keys : TRUE
             h == CHOOSE x \in free : \A y \in free : x <= y
         IN MapSet(NewHandles(keys \ {k}, free \ {h}), k, h)

\* the registrations made in one pass of broadcastAll
RECURSIVE NewServers(_, _, _, _)
NewServers(srv, keys, handles, ip) ==
    IF keys = {} THEN srv
    ELSE LET k == CHOOSE x \in keys : TRUE IN
         NewServers(Registered(srv, handles[k], records[k].host, ip),
                    keys \ {k}, handles, ip)

RECURSIVE RegisterCalls(_, _)
RegisterCalls(keys, handles) ==
    IF keys = {} THEN <<>>
    ELSE LET k == CHOOSE x \in keys : TRUE IN
         <<Call("RegisterProxy",
                IF k \in DOMAIN handles THEN handles[k] ELSE 0,
                k \in DOMAIN handles)>>
             \o RegisterCalls(keys \ {k}, handles)

\* a pass that ends at the first re-registration that fails, here met as
\* the first key of the loop
LbBroadcastAllAbort(ipOk, newIP, regFail, stuck) ==
    LET keys == DOMAIN records
        free == FreeHandles(servers, HeldBy(records))
        handles == NewHandles(keys, free)
        first == CHOOSE k \in regFail : TRUE
        newRecords == [k \in keys |->
                         [service |-> records[k].service,
                          host |-> records[k].host,
                          port |-> records[k].port,
                          server |-> handles[k]]]
    IN
    /\ regFail \subseteq keys /\ stuck \subseteq keys
    /\ IF ~ipOk
         THEN /\ lbLast' = [op |-> "Tick", domain |-> <<>>,
                            err |-> "failed to get local IP", calls |-> NoCall]
              /\ UNCHANGED <<records, localIP, servers, leaked, routes>>
       ELSE IF regFail # {}
         THEN /\ localIP' = newIP
              /\ servers' = ShutdownAll(servers, {first}, stuck \cap {first})
              /\ lbLast' = [op |-> "Tick", domain |-> <<>>,
                            err |-> "nil",
                            calls |-> ShutdownCalls({first}, stuck \cap {first})
                                      \o <<Call("RegisterProxy", 0, FALSE)>>]
              /\ UNCHANGED <<records, leaked, routes>>
         ELSE /\ Cardinality(keys) <= Cardinality(free)
              /\ localIP' = newIP
              /\ servers' = Collect(NewServers(ShutdownAll(servers, keys, stuck),
                                               keys, handles, newIP),
                                    newRecords)
              /\ leaked' = leaked \cup
                              Leaks(NewServers(ShutdownAll(servers, keys, stuck),
                                               keys, handles, newIP),
                                    newRecords)
              /\ records' = newRecords
              /\ lbLast' = [op |-> "Tick", domain |-> <<>>,
                            err |-> "nil",
                            calls |-> ShutdownCalls(keys, stuck)
                                      \o RegisterCalls(keys, handles)]
              /\ UNCHANGED routes
    /\ UNCHANGED notLbVars

\* broadcastAll(), one tick of startBroadcast.  ipOk, newIP: the result of
\* getLocalIP(); regFail: the keys whose RegisterProxy fails; stuck: the
\* keys whose old server's teardown fails
LbBroadcastAll(ipOk, newIP, regFail, stuck) ==
    LET keys == DOMAIN records
        good == keys \ regFail
        free == FreeHandles(servers, HeldBy(records))
        handles == NewHandles(good, free)
        newRecords == [k \in keys |->
                         IF k \in good
                           THEN [service |-> records[k].service,
                                 host |-> records[k].host,
                                 port |-> records[k].port,
                                 server |-> handles[k]]
                           ELSE records[k]]
    IN
    /\ regFail \subseteq keys /\ stuck \subseteq keys
    /\ IF ~ipOk
         THEN /\ lbLast' = [op |-> "Tick", domain |-> <<>>,
                            err |-> "failed to get local IP", calls |-> NoCall]
              /\ UNCHANGED <<records, localIP, servers, leaked, routes>>
         ELSE /\ Cardinality(good) <= Cardinality(free)
              /\ localIP' = newIP
              /\ servers' = Collect(NewServers(ShutdownAll(servers, keys, stuck),
                                               good, handles, newIP),
                                    newRecords)
              /\ leaked' = leaked \cup
                              Leaks(NewServers(ShutdownAll(servers, keys, stuck),
                                               good, handles, newIP),
                                    newRecords)
              \* a key whose re-registration failed keeps its old record
              /\ records' = newRecords
              /\ lbLast' = [op |-> "Tick", domain |-> <<>>,
                            err |-> "nil",
                            calls |-> ShutdownCalls(keys, stuck)
                                      \o RegisterCalls(keys, handles)]
              /\ UNCHANGED routes
    /\ UNCHANGED notLbVars

\* the fault scenarios of one Add: <<regOk, routeOk, downOk>>; a collaborator
\* that is not reached in a scenario is listed as succeeding
AddFaults ==
    { <<TRUE, TRUE, TRUE>>, <<FALSE, TRUE, TRUE>>, <<TRUE, FALSE, TRUE>>,
      <<TRUE, FALSE, FALSE>> }

\* Add(domain, port) gets as far as its first collaborator call
AddReachesCollaborators(domain, port) ==
    /\ ValidateDomain(domain) = "nil"
    /\ ValidatePort(port) = "nil"
    /\ FullDomain(domain) \notin DOMAIN records

LbNext ==
    \/ \E d \in DomainInputs, p \in PortInputs, f \in AddFaults :
          /\ f = <<TRUE, TRUE, TRUE>> \/ AddReachesCollaborators(d, p)
          /\ LbAdd(d, p, f[1], f[2], f[3])
    \/ \E d \in DomainInputs \cup DOMAIN records, downOk, routeOk \in BOOLEAN :
          /\ d \in DOMAIN records \/ (downOk /\ routeOk)
          /\ LbRemove(d, downOk, routeOk)
    \/ \E stuck \in SUBSET (DOMAIN records), clearOk \in BOOLEAN :
          LbShutdown(stuck, clearOk)
    \/ \E newIP \in LbIPs,
          regFail \in SUBSET (DOMAIN records), stuck \in SUBSET (DOMAIN records) :
          LbBroadcastAll(TRUE, newIP, regFail, stuck)
    \/ LbBroadcastAll(FALSE, localIP, {}, {})

(***************************************************************************)
(* Validator of core.go (DomainValidator next to LocalBase)                *)
(***************************************************************************)
\* the loop over labels of core.go's ValidateDomain
RECURSIVE CoreLabelsError(_)
CoreLabelsError(labels) ==
    IF labels = <<>> THEN "nil"
    ELSE IF Head(labels) = <<>> THEN "domain contains empty label"
    ELSE IF StrLen(Head(labels)) > 63 THEN "domain label too long"
    ELSE IF ~LabelMatches(Head(labels)) THEN "invalid domain label"
    ELSE CoreLabelsError(Tail(labels))

\* DomainValidator.ValidateDomain of core.go: "nil" or the error
CoreValidateDomain(domain) ==
    LET d == TrimSuffix(domain, DotLocal) IN
    IF d = <<>> THEN "domain cannot be empty"
    ELSE IF StrLen(d) > 253 THEN "domain name too long"
    ELSE IF d = <<"localhost">> THEN "localhost is a reserved domain"
    ELSE CoreLabelsError(Split(d))

\* DomainValidator.ValidatePort of core.go: "nil" or the error
CoreValidatePort(port) ==
    IF port < 1 \/ port > 65535 THEN "port must be between 1 and 65535"
    ELSE "nil"

(***************************************************************************)
(* Domain orchestrator of core.go: LocalBase with l.domains and            *)
(* l.mdnsServers, each under its own lock.  A method is a sequence of      *)
(* steps; a step is what the method does between two points at which       *)
(* another goroutine can run against the shared maps and collaborators.    *)
(***************************************************************************)
CoreDomainInputs == { <<"myapp">>, <<"myapp", ".", "local">>, <<"localhost">> }

CorePortInputs == {0, 3000}

IPs == {"192.168.1.10", "10.0.0.7"}

Clients == 1 .. MaxClients

NoServer == "none"

Idle == [op |-> "none", arg |-> <<>>, port |-> 0, pc |-> "idle",
         server |-> NoServer, err |-> "nil"]

CoreInit ==
    /\ domains = <<>>
    /\ mdnsServers = <<>>
    /\ coreIP = "192.168.1.10"
    /\ orphans = {}
    /\ caddy = <<>>
    /\ call = [c \in Clients |-> Idle]
    /\ refresh = [pc |-> "idle", todo |-> <<>>, cur |-> <<>>, server |-> NoServer,
                  under |-> {}]

\* "Ensure domain ends with .local" of Add and Remove
CoreKey(domain) ==
    IF ~HasSuffix(domain, DotLocal) THEN domain \o DotLocal ELSE domain

\* List: the DomainInfo values of l.domains (in no order)
CoreList == {[Domain |-> k, Port |-> domains[k]] : k \in DOMAIN domains}

\* the method of client c returns err
Return(c, err) ==
    [call[c] EXCEPT !.pc = "idle", !.port = 0, !.server = NoServer, !.err = err]

\* the method of client c goes on at position pos
Goto(c, pos) == [call[c] EXCEPT !.pc = pos]

\* l.mdnsServers[key] = server; a registration that was stored under the key
\* is dropped from the map without being shut down
StoreServer(key, server) ==
    /\ mdnsServers' = MapSet(mdnsServers, key, server)
    /\ orphans' = IF key \in DOMAIN mdnsServers
                    THEN orphans \cup {[domain |-> key, ip |-> mdnsServers[key]]}
                    ELSE orphans

\* unregisterMDNS(key): under mdnsMu, shut the stored server down and
\* delete it from the map
Unregistered(key) == MapDelete(mdnsServers, key)

\* Add, up to the check under domainsmu.RLock: validation, suffix, lookup
CoreAddBegin(c, domain, port) ==
    /\ call[c].pc = "idle"
    /\ LET begun == [op |-> "Add", arg |-> domain, port |-> port,
                     pc |-> "add_caddy", server |-> NoServer, err |-> "nil"]
           failed(err) == [begun EXCEPT !.pc = "idle", !.port = 0, !.err = err]
       IN call' = [call EXCEPT ![c] =
            IF CoreValidateDomain(domain) # "nil" THEN failed("invalid domain")
            ELSE IF CoreValidatePort(port) # "nil" THEN failed("invalid port")
            ELSE IF CoreKey(domain) \in DOMAIN domains
                THEN failed("already registered")
            ELSE begun]
    /\ UNCHANGED <<domains, mdnsServers, coreIP, orphans, caddy, refresh>>
    /\ UNCHANGED notCoreVars

\* Add: l.caddyClient.AddServerBlock(ctx, []string{domain}, port)
CoreAddCaddy(c, ok) ==
    /\ call[c].pc = "add_caddy"
    /\ IF ok
         THEN /\ caddy' = MapSet(caddy, CoreKey(call[c].arg), call[c].port)
              /\ call' = [call EXCEPT ![c] = Goto(c, "add_mdns")]
         ELSE /\ UNCHANGED caddy
              /\ call' = [call EXCEPT ![c] = Return(c, "failed to register with Caddy")]
    /\ UNCHANGED <<domains, mdnsServers, coreIP, orphans, refresh>>
    /\ UNCHANGED notCoreVars

\* Add: registerMDNS up to the result of bonjour.RegisterProxy, which
\* announces the host under the cached address
CoreAddRegister(c, ok) ==
    /\ call[c].pc = "add_mdns"
    /\ call' = [call EXCEPT ![c] =
                  IF ok THEN [Goto(c, "add_server") EXCEPT !.server = coreIP]
                        ELSE Goto(c, "add_rollback")]
    /\ UNCHANGED <<domains, mdnsServers, coreIP, orphans, caddy, refresh>>
    /\ UNCHANGED notCoreVars

\* Add: registerMDNS, l.mdnsServers[domain] = server under mdnsMu
CoreAddStoreServer(c) ==
    /\ call[c].pc = "add_server"
    /\ StoreServer(CoreKey(call[c].arg), call[c].server)
    /\ call' = [call EXCEPT ![c] = [Goto(c, "add_store") EXCEPT !.server = NoServer]]
    /\ UNCHANGED <<domains, coreIP, caddy, refresh>>
    /\ UNCHANGED notCoreVars

\* Add: rollback of the Caddy registration after registerMDNS failed; the
\* result of RemoveServerBlock is dropped
CoreAddRollback(c, ok) ==
    /\ call[c].pc = "add_rollback"
    /\ caddy' = IF ok THEN MapDelete(caddy, CoreKey(call[c].arg)) ELSE caddy
    /\ call' = [call EXCEPT ![c] = Return(c, "failed to register mDNS")]
    /\ UNCHANGED <<domains, mdnsServers, coreIP, orphans, refresh>>
    /\ UNCHANGED notCoreVars

\* an Add that stores the name as it was given
CoreAddStoreRaw(c) ==
    /\ call[c].pc = "add_store"
    /\ domains' = MapSet(domains, call[c].arg, call[c].port)
    /\ call' = [call EXCEPT ![c] = Return(c, "nil")]
    /\ UNCHANGED <<mdnsServers, coreIP, orphans, caddy, refresh>>
    /\ UNCHANGED notCoreVars

\* Add: l.domains[domain] = &domainEntry{port: port} under domainsmu.Lock
CoreAddStore(c) ==
    /\ call[c].pc = "add_store"
    /\ domains' = MapSet(domains, CoreKey(call[c].arg), call[c].port)
    /\ call' = [call EXCEPT ![c] = Return(c, "nil")]
    /\ UNCHANGED <<mdnsServers, coreIP, orphans, caddy, refresh>>
    /\ UNCHANGED notCoreVars

\* Remove, up to the check under domainsmu.RLock: suffix, lookup
CoreRemoveBegin(c, domain) ==
    /\ call[c].pc = "idle"
    /\ LET begun == [op |-> "Remove", arg |-> domain, port |-> 0,
                     pc |-> "rm_caddy", server |-> NoServer, err |-> "nil"]
       IN call' = [call EXCEPT ![c] =
            IF CoreKey(domain) \notin DOMAIN domains
                THEN [begun EXCEPT !.pc = "idle", !.err = "not registered"]
            ELSE begun]
    /\ UNCHANGED <<domains, mdnsServers, coreIP, orphans, caddy, refresh>>
    /\ UNCHANGED notCoreVars

\* Remove: RemoveServerBlock; an error is logged and the cleanup goes on
CoreRemoveCaddy(c, ok) ==
    /\ call[c].pc = "rm_caddy"
    /\ caddy' = IF ok THEN MapDelete(caddy, CoreKey(call[c].arg)) ELSE caddy
    /\ call' = [call EXCEPT ![c] = Goto(c, "rm_mdns")]
    /\ UNCHANGED <<domains, mdnsServers, coreIP, orphans, refresh>>
    /\ UNCHANGED notCoreVars

\* Remove: l.unregisterMDNS(domain)
CoreRemoveUnregister(c) ==
    /\ call[c].pc = "rm_mdns"
    /\ mdnsServers' = Unregistered(CoreKey(call[c].arg))
    /\ call' = [call EXCEPT ![c] = Goto(c, "rm_delete")]
    /\ UNCHANGED <<domains, coreIP, orphans, caddy, refresh>>
    /\ UNCHANGED notCoreVars

\* Remove: delete(l.domains, domain) under domainsmu.Lock
CoreRemoveDelete(c) ==
    /\ call[c].pc = "rm_delete"
    /\ domains' = MapDelete(domains, CoreKey(call[c].arg))
    /\ call' = [call EXCEPT ![c] = Return(c, "nil")]
    /\ UNCHANGED <<mdnsServers, coreIP, orphans, caddy, refresh>>
    /\ UNCHANGED notCoreVars

\* Shutdown: under mdnsMu every server of l.mdnsServers is shut down and
\* the map is replaced by an empty one
CoreShutdownServers(c) ==
    /\ call[c].pc = "idle"
    /\ mdnsServers' = <<>>
    /\ call' = [call EXCEPT ![c] =
                  [op |-> "Shutdown", arg |-> <<>>, port |-> 0,
                   pc |-> "sd_caddy", server |-> NoServer, err |-> "nil"]]
    /\ UNCHANGED <<domains, coreIP, orphans, caddy, refresh>>
    /\ UNCHANGED notCoreVars

\* Shutdown: ClearAllServerBlocks; an error is collected
CoreShutdownCaddy(c, ok) ==
    /\ call[c].pc = "sd_caddy"
    /\ caddy' = IF ok THEN <<>> ELSE caddy
    /\ call' = [call EXCEPT ![c] =
                  [Goto(c, "sd_domains") EXCEPT
                      !.err = IF ok THEN "nil" ELSE "shutdown errors"]]
    /\ UNCHANGED <<domains, mdnsServers, coreIP, orphans, refresh>>
    /\ UNCHANGED notCoreVars

\* Shutdown: l.domains is replaced by an empty map; the collected errors
\* are returned
CoreShutdownDomains(c) ==
    /\ call[c].pc = "sd_domains"
    /\ domains' = <<>>
    /\ call' = [call EXCEPT ![c] = Return(c, call[c].err)]
    /\ UNCHANGED <<mdnsServers, coreIP, orphans, caddy, refresh>>
    /\ UNCHANGED notCoreVars

\* startBroadcast, case <-ticker.C: refreshAllMDNS copies l.domains under
\* domainsmu.RLock
RefreshSnapshot ==
    /\ refresh.pc = "idle"
    /\ refresh' = [refresh EXCEPT !.pc = "loop", !.todo = domains, !.under = {}]
    /\ UNCHANGED <<domains, mdnsServers, coreIP, orphans, caddy, call>>
    /\ UNCHANGED notCoreVars

\* refreshAllMDNS, loop body for the next domain k of the copy (a map is
\* ranged over in no fixed order): l.unregisterMDNS(domain)
RefreshUnregister(k) ==
    /\ refresh.pc = "loop"
    /\ k \in DOMAIN refresh.todo
    /\ mdnsServers' = Unregistered(k)
    /\ refresh' = [refresh EXCEPT !.pc = "reg", !.cur = k,
                                  !.todo = MapDelete(refresh.todo, k)]
    /\ UNCHANGED <<domains, coreIP, orphans, caddy, call>>
    /\ UNCHANGED notCoreVars

\* refreshAllMDNS: registerMDNS up to the result of bonjour.RegisterProxy;
\* a failure is logged and the loop goes on
RefreshRegister(ok) ==
    /\ refresh.pc = "reg"
    /\ refresh' = IF ok THEN [refresh EXCEPT !.pc = "store", !.server = coreIP,
                                              !.under = @ \cup {coreIP}]
                        ELSE [refresh EXCEPT !.pc = "loop", !.cur = <<>>]
    /\ UNCHANGED <<domains, mdnsServers, coreIP, orphans, caddy, call>>
    /\ UNCHANGED notCoreVars

\* refreshAllMDNS: registerMDNS, l.mdnsServers[domain] = server
RefreshStoreServer ==
    /\ refresh.pc = "store"
    /\ StoreServer(refresh.cur, refresh.server)
    /\ refresh' = [refresh EXCEPT !.pc = "loop", !.cur = <<>>,
                                  !.server = NoServer]
    /\ UNCHANGED <<domains, coreIP, caddy, call>>
    /\ UNCHANGED notCoreVars

\* startBroadcast after refreshAllMDNS has returned: getLocalIP() and the
\* update of l.localIP under ipMu; ipOk, newIP: the result of getLocalIP()
RefreshDiscover(ipOk, newIP) ==
    /\ refresh.pc = "loop"
    /\ refresh.todo = <<>>
    /\ coreIP' = IF ipOk /\ newIP # coreIP THEN newIP ELSE coreIP
    /\ refresh' = [refresh EXCEPT !.pc = "idle", !.under = {}]
    /\ UNCHANGED <<domains, mdnsServers, orphans, caddy, call>>
    /\ UNCHANGED notCoreVars

CoreNext ==
    \/ \E c \in Clients, d \in CoreDomainInputs, p \in CorePortInputs :
          CoreAddBegin(c, d, p)
    \/ \E c \in Clients, ok \in BOOLEAN : CoreAddCaddy(c, ok)
    \/ \E c \in Clients, ok \in BOOLEAN : CoreAddRegister(c, ok)
    \/ \E c \in Clients : CoreAddStoreServer(c)
    \/ \E c \in Clients, ok \in BOOLEAN : CoreAddRollback(c, ok)
    \/ \E c \in Clients : CoreAddStore(c)
    \/ \E c \in Clients, d \in CoreDomainInputs : CoreRemoveBegin(c, d)
    \/ \E c \in Clients, ok \in BOOLEAN : CoreRemoveCaddy(c, ok)
    \/ \E c \in Clients : CoreRemoveUnregister(c)
    \/ \E c \in Clients : CoreRemoveDelete(c)
    \/ \E c \in Clients : CoreShutdownServers(c)
    \/ \E c \in Clients, ok \in BOOLEAN : CoreShutdownCaddy(c, ok)
    \/ \E c \in Clients : CoreShutdownDomains(c)
    \/ RefreshSnapshot
    \/ \E k \in DOMAIN refresh.todo : RefreshUnregister(k)
    \/ \E ok \in BOOLEAN : RefreshRegister(ok)
    \/ RefreshStoreServer
    \/ \E ipOk \in BOOLEAN, newIP \in IPs : RefreshDiscover(ipOk, newIP)

(***************************************************************************)
(* Protocol handler: ProtocolHandler of the daemon.  p.service is the      *)
(* DomainService interface; what a call on it returns (nil, one of the     *)
(* orchestrator's errors, or a panic) is an input of the step that calls.  *)
(***************************************************************************)
ProtocolVersion == "1.0"

ErrorCodeInvalidRequest == -32600
ErrorCodeMethodNotFound == -32601
ErrorCodeInvalidParams == -32602
ErrorCodeInternalError == -32603
ErrorCodeValidation == -32002

PhConns == 1 .. MaxPhConns

\* params["domain"]: absent, a JSON number, or a JSON string
DomainParams ==
    { [t |-> "missing", v |-> <<>>], [t |-> "number", v |-> <<>>],
      [t |-> "string", v |-> <<"myapp">>], [t |-> "string", v |-> <<"localhost">>] }

\* params["port"]: absent, a JSON string, or a JSON number (a float64, held
\* here in tenths: 30005 is 3000.5)
PortParams ==
    { [t |-> "missing", v |-> 0], [t |-> "string", v |-> 0],
      [t |-> "number", v |-> 800], [t |-> "number", v |-> 30000],
      [t |-> "number", v |-> 30005] }

Methods == {"ping", "add", "remove", "list", "shutdown", "status"}

Versions == {"1.0", "0.1"}

NoRequest == [wire |-> "none", json |-> "none", version |-> "", method |-> "",
              domain |-> [t |-> "missing", v |-> <<>>],
              port |-> [t |-> "missing", v |-> 0]]

\* what reader.ReadBytes('\n') can deliver: end of stream before any byte,
\* end of stream after some bytes, another read error, or a line
WireFailures ==
    {[NoRequest EXCEPT !.wire = w] : w \in {"eof_empty", "eof_partial", "error"}}

\* a line that json.Unmarshal rejects
BadJSON == [NoRequest EXCEPT !.wire = "line", !.json = "invalid"]

Line(version, method, domain, port) ==
    [wire |-> "line", json |-> "valid", version |-> version, method |-> method,
     domain |-> domain, port |-> port]

Requests ==
    WireFailures \cup {BadJSON}
    \cup {Line("1.0", "add", d, p) : d \in DomainParams, p \in PortParams}
    \cup {Line("1.0", "remove", d, NoRequest.port) : d \in DomainParams}
    \cup {Line(v, m, NoRequest.domain, NoRequest.port) :
             v \in Versions, m \in Methods \ {"add", "remove"}}
    \cup {Line("0.1", m, [t |-> "string", v |-> <<"myapp">>],
               [t |-> "number", v |-> 30000]) : m \in {"add", "remove"}}

\* int(portFloat): the fraction is dropped
IntOfFloat(tenths) == tenths \div 10

NoResult == [status |-> "", domain |-> <<>>, port |-> 0, version |-> ""]

NoResponse == [kind |-> "none", code |-> 0, message |-> "", data |-> "",
               result |-> NoResult]

\* the Response of sendResponse
Success(result) == [NoResponse EXCEPT !.kind = "result", !.result = result]

\* the Response of sendError
Failure(code, message, data) ==
    [NoResponse EXCEPT !.kind = "error", !.code = code, !.message = message,
                       !.data = data]

\* an error value: rpc tells whether its dynamic type is *Error
RpcError(code, message, data) ==
    [rpc |-> TRUE, code |-> code, message |-> message, data |-> data]

\* an error made by fmt.Errorf, as the orchestrators return them
PlainError(text) == [rpc |-> FALSE, code |-> 0, message |-> text, data |-> ""]

NoError == [rpc |-> FALSE, code |-> 0, message |-> "nil", data |-> ""]

\* what the calls on the orchestrator can do: return nil, return one of its
\* errors, or panic
AddOutcomes == {"nil", "already registered", "failed to register mDNS service",
                "failed to add Caddy server block", "panic"}
RemoveOutcomes == {"nil", "not registered", "panic"}
ListOutcomes == {"nil", "panic"}

\* what a method hands back to HandleConnection: result and error, the calls
\* it made on p.service, whether it started p.shutdownFunc, whether it
\* panicked
Done(result, err, calls, spawn) ==
    [result |-> result, err |-> err, calls |-> calls, spawn |-> spawn,
     panic |-> FALSE]

Panicked(calls) ==
    [result |-> NoResult, err |-> NoError, calls |-> calls, spawn |-> FALSE,
     panic |-> TRUE]

SvcCall(fn, domain, port) == [fn |-> fn, domain |-> domain, port |-> port]

\* a handleAdd that takes the params without the type assertions: what is
\* missing or of another type arrives as the zero value
HandleAddUnchecked(req, svc) ==
    LET domain == req.domain.v
        port == IntOfFloat(req.port.v)
        add == <<SvcCall("Add", domain, port)>>
    IN
    IF ValidateDomain(domain) # "nil"
        THEN Done(NoResult,
                  RpcError(ErrorCodeValidation, "invalid domain",
                           ValidateDomain(domain)),
                  <<>>, FALSE)
    ELSE IF ValidatePort(port) # "nil"
        THEN Done(NoResult,
                  RpcError(ErrorCodeValidation, "invalid port", ValidatePort(port)),
                  <<>>, FALSE)
    ELSE IF svc = "panic" THEN Panicked(add)
    ELSE IF svc # "nil" THEN Done(NoResult, PlainError(svc), add, FALSE)
    ELSE Done([NoResult EXCEPT !.status = "registered",
                               !.domain = domain \o DotLocal, !.port = port],
              NoError, add, FALSE)

\* a handleAdd that validates the port before the domain
HandleAddPortFirst(req, svc) ==
    LET domain == req.domain.v
        port == IntOfFloat(req.port.v)
        add == <<SvcCall("Add", domain, port)>>
    IN
    IF req.domain.t # "string"
        THEN Done(NoResult,
                  RpcError(ErrorCodeInvalidParams,
                           "missing or invalid 'domain' parameter", ""),
                  <<>>, FALSE)
    ELSE IF req.port.t # "number"
        THEN Done(NoResult,
                  RpcError(ErrorCodeInvalidParams,
                           "missing or invalid 'port' parameter", ""),
                  <<>>, FALSE)
    ELSE IF ValidatePort(port) # "nil"
        THEN Done(NoResult,
                  RpcError(ErrorCodeValidation, "invalid port", ValidatePort(port)),
                  <<>>, FALSE)
    ELSE IF ValidateDomain(domain) # "nil"
        THEN Done(NoResult,
                  RpcError(ErrorCodeValidation, "invalid domain",
                           ValidateDomain(domain)),
                  <<>>, FALSE)
    ELSE IF svc = "panic" THEN Panicked(add)
    ELSE IF svc # "nil" THEN Done(NoResult, PlainError(svc), add, FALSE)
    ELSE Done([NoResult EXCEPT !.status = "registered",
                               !.domain = domain \o DotLocal, !.port = port],
              NoError, add, FALSE)

\* handleAdd(ctx, params); svc: what p.service.Add does if it is called
HandleAdd(req, svc) ==
    LET domain == req.domain.v
        port == IntOfFloat(req.port.v)
        add == <<SvcCall("Add", domain, port)>>
    IN
    IF req.domain.t # "string"
        THEN Done(NoResult,
                  RpcError(ErrorCodeInvalidParams,
                           "missing or invalid 'domain' parameter", ""),
                  <<>>, FALSE)
    ELSE IF req.port.t # "number"
        THEN Done(NoResult,
                  RpcError(ErrorCodeInvalidParams,
                           "missing or invalid 'port' parameter", ""),
                  <<>>, FALSE)
    ELSE IF ValidateDomain(domain) # "nil"
        THEN Done(NoResult,
                  RpcError(ErrorCodeValidation, "invalid domain",
                           ValidateDomain(domain)),
                  <<>>, FALSE)
    ELSE IF ValidatePort(port) # "nil"
        THEN Done(NoResult,
                  RpcError(ErrorCodeValidation, "invalid port", ValidatePort(port)),
                  <<>>, FALSE)
    ELSE IF svc = "panic" THEN Panicked(add)
    ELSE IF svc # "nil" THEN Done(NoResult, PlainError(svc), add, FALSE)
    ELSE Done([NoResult EXCEPT !.status = "registered",
                               !.domain = domain \o DotLocal, !.port = port],
              NoError, add, FALSE)

\* handleRemove(ctx, params)
HandleRemove(req, svc) ==
    LET remove == <<SvcCall("Remove", req.domain.v, 0)>> IN
    IF req.domain.t # "string"
        THEN Done(NoResult,
                  RpcError(ErrorCodeInvalidParams,
                           "missing or invalid 'domain' parameter", ""),
                  <<>>, FALSE)
    ELSE IF svc = "panic" THEN Panicked(remove)
    ELSE IF svc # "nil" THEN Done(NoResult, PlainError(svc), remove, FALSE)
    ELSE Done([NoResult EXCEPT !.status = "removed", !.domain = req.domain.v],
              NoError, remove, FALSE)

\* handleList(ctx)
HandleList(svc) ==
    LET list == <<SvcCall("List", <<>>, 0)>> IN
    IF svc = "panic" THEN Panicked(list)
    ELSE IF svc # "nil" THEN Done(NoResult, PlainError(svc), list, FALSE)
    ELSE Done([NoResult EXCEPT !.status = "domains"], NoError, list, FALSE)

\* handleShutdown(ctx): go p.shutdownFunc(), then the acknowledgement
HandleShutdown ==
    Done([NoResult EXCEPT !.status = "shutdown initiated"], NoError, <<>>, TRUE)

\* a processRequest whose ping asks the orchestrator for its list first
ProcessRequestPingLists(req, svc) ==
    CASE req.method = "add" -> HandleAdd(req, svc)
      [] req.method = "remove" -> HandleRemove(req, svc)
      [] req.method = "list" -> HandleList(svc)
      [] req.method = "ping" ->
            IF svc = "panic" THEN Panicked(<<SvcCall("List", <<>>, 0)>>)
            ELSE Done([NoResult EXCEPT !.status = "ok", !.version = ProtocolVersion],
                      NoError, <<SvcCall("List", <<>>, 0)>>, FALSE)
      [] req.method = "shutdown" -> HandleShutdown
      [] OTHER ->
            Done(NoResult, RpcError(ErrorCodeMethodNotFound, "unknown method", ""),
                 <<>>, FALSE)

\* a processRequest whose default case answers like ping
ProcessRequestDefaultPing(req, svc) ==
    CASE req.method = "add" -> HandleAdd(req, svc)
      [] req.method = "remove" -> HandleRemove(req, svc)
      [] req.method = "list" -> HandleList(svc)
      [] req.method = "shutdown" -> HandleShutdown
      [] OTHER ->
            Done([NoResult EXCEPT !.status = "ok", !.version = ProtocolVersion],
                 NoError, <<>>, FALSE)

\* processRequest(ctx, req): the switch on req.Method
ProcessRequest(req, svc) ==
    CASE req.method = "add" -> HandleAdd(req, svc)
      [] req.method = "remove" -> HandleRemove(req, svc)
      [] req.method = "list" -> HandleList(svc)
      [] req.method = "ping" ->
            Done([NoResult EXCEPT !.status = "ok", !.version = ProtocolVersion],
                 NoError, <<>>, FALSE)
      [] req.method = "shutdown" -> HandleShutdown
      [] OTHER ->
            Done(NoResult, RpcError(ErrorCodeMethodNotFound, "unknown method", ""),
                 <<>>, FALSE)

\* the outcomes the call on p.service can have for this request ("nil" alone
\* when the method makes no call)
OutcomesOf(req) ==
    IF ProcessRequest(req, "nil").calls = <<>> THEN {"nil"}
    ELSE CASE req.method = "add" -> AddOutcomes
           [] req.method = "remove" -> RemoveOutcomes
           [] OTHER -> ListOutcomes

\* HandleConnection after processRequest: an *Error goes out with its own
\* code, message and data, any other error as an internal error
ResponseOf(done) ==
    IF done.err = NoError THEN Success(done.result)
    ELSE IF done.err.rpc
        THEN Failure(done.err.code, done.err.message, done.err.data)
    ELSE Failure(ErrorCodeInternalError, "internal error", done.err.message)

\* a HandleConnection without the version check
AdmitAnyVersion(r) ==
    IF r.wire \in {"eof_empty", "eof_partial"}
        THEN [pc |-> "returned", out |-> NoResponse]
    ELSE IF r.wire = "error"
        THEN [pc |-> "respond",
              out |-> Failure(ErrorCodeInvalidRequest, "failed to read request",
                              "read error")]
    ELSE IF r.json # "valid"
        THEN [pc |-> "respond",
              out |-> Failure(ErrorCodeInvalidRequest, "invalid JSON",
                              "syntax error")]
    ELSE [pc |-> "dispatch", out |-> NoResponse]

\* a HandleConnection that drops a line it cannot parse, as it drops an
\* end of stream
AdmitDropBadJSON(r) ==
    IF r.wire \in {"eof_empty", "eof_partial"}
        THEN [pc |-> "returned", out |-> NoResponse]
    ELSE IF r.wire = "error"
        THEN [pc |-> "respond",
              out |-> Failure(ErrorCodeInvalidRequest, "failed to read request",
                              "read error")]
    ELSE IF r.json # "valid"
        THEN [pc |-> "returned", out |-> NoResponse]
    ELSE IF r.version # ProtocolVersion
        THEN [pc |-> "respond",
              out |-> Failure(ErrorCodeInvalidRequest,
                              "unsupported protocol version", "")]
    ELSE [pc |-> "dispatch", out |-> NoResponse]

\* HandleConnection from ReadBytes to the version check: where it goes on
\* and the Response it has to send, if any
Admit(r) ==
    IF r.wire \in {"eof_empty", "eof_partial"}
        \* err == io.EOF: return nil
        THEN [pc |-> "returned", out |-> NoResponse]
    ELSE IF r.wire = "error"
        THEN [pc |-> "respond",
              out |-> Failure(ErrorCodeInvalidRequest, "failed to read request",
                              "read error")]
    ELSE IF r.json # "valid"
        THEN [pc |-> "respond",
              out |-> Failure(ErrorCodeInvalidRequest, "invalid JSON",
                              "syntax error")]
    ELSE IF r.version # ProtocolVersion
        THEN [pc |-> "respond",
              out |-> Failure(ErrorCodeInvalidRequest,
                              "unsupported protocol version", "")]
    ELSE [pc |-> "dispatch", out |-> NoResponse]

PhInit ==
    /\ hPc = [c \in PhConns |-> "idle"]
    /\ hReq = [c \in PhConns |-> NoRequest]
    /\ hOut = [c \in PhConns |-> NoResponse]
    /\ hResp = [c \in PhConns |-> <<>>]
    /\ hCalls = [c \in PhConns |-> <<>>]
    /\ hReads = [c \in PhConns |-> 0]
    /\ trig = [c \in PhConns |-> "none"]
    /\ srvPc = "starting"
    /\ rootDone = FALSE
    /\ listenerOpen = TRUE
    /\ poolCancelled = FALSE
    /\ acceptLoop = "none"
    /\ refreshLoop = "none"

\* acceptConnections: s.listener.Accept() delivers connection c and
\* s.pool.Accept(conn) begins: its first select turns the connection away
\* when the pool's context is cancelled
PhAccept(c) ==
    /\ hPc[c] = "idle"
    /\ listenerOpen
    /\ hPc' = [hPc EXCEPT ![c] = IF poolCancelled \/ rootDone THEN "rejected"
                                                              ELSE "admitting"]
    /\ UNCHANGED <<hReq, hOut, hResp, hCalls, hReads, trig, srvPc, rootDone,
                   listenerOpen, poolCancelled>>
    /\ UNCHANGED loopVars
    /\ UNCHANGED notPhVars

\* s.pool.Accept(conn), second select: a slot is free (the daemon's pool has
\* 100), so the connection is admitted and HandleConnection started for it;
\* when the pool's context has been cancelled in the meantime that case is
\* ready as well, and Go picks either (refuse: the cancellation is picked)
PhAdmit(c, refuse) ==
    /\ hPc[c] = "admitting"
    /\ refuse => (poolCancelled \/ rootDone)
    /\ hPc' = [hPc EXCEPT ![c] = IF refuse THEN "rejected" ELSE "open"]
    /\ UNCHANGED <<hReq, hOut, hResp, hCalls, hReads, trig, srvPc, rootDone,
                   listenerOpen, poolCancelled>>
    /\ UNCHANGED loopVars
    /\ UNCHANGED notPhVars

\* HandleConnection: reader.ReadBytes('\n') delivers r; json.Unmarshal and
\* the version check follow
PhRead(c, r) ==
    /\ hPc[c] = "open"
    /\ hReads' = [hReads EXCEPT ![c] = @ + 1]
    /\ hReq' = [hReq EXCEPT ![c] = r]
    /\ hPc' = [hPc EXCEPT ![c] = Admit(r).pc]
    /\ hOut' = [hOut EXCEPT ![c] = Admit(r).out]
    /\ UNCHANGED <<hResp, hCalls, trig, srvPc, rootDone, listenerOpen,
                   poolCancelled>>
    /\ UNCHANGED loopVars
    /\ UNCHANGED notPhVars

\* HandleConnection: p.processRequest(reqCtx, &req) and the choice of the
\* Response; a panic leaves HandleConnection without one and is recovered
\* in the pool's handleConnection
PhProcess(c, svc) ==
    LET done == ProcessRequest(hReq[c], svc) IN
    /\ hPc[c] = "dispatch"
    /\ svc \in OutcomesOf(hReq[c])
    /\ hCalls' = [hCalls EXCEPT ![c] = @ \o done.calls]
    /\ trig' = [trig EXCEPT ![c] = IF done.spawn THEN "spawned" ELSE @]
    /\ hPc' = [hPc EXCEPT ![c] = IF done.panic THEN "panicked" ELSE "respond"]
    /\ hOut' = [hOut EXCEPT ![c] = IF done.panic THEN NoResponse
                                                  ELSE ResponseOf(done)]
    /\ UNCHANGED <<hReq, hResp, hReads, srvPc, rootDone, listenerOpen,
                   poolCancelled>>
    /\ UNCHANGED loopVars
    /\ UNCHANGED notPhVars

\* a handler that answers and then waits for another request
PhRespondKeepAlive(c, writeOk) ==
    /\ hPc[c] = "respond"
    /\ hResp' = [hResp EXCEPT ![c] = IF writeOk THEN Append(@, hOut[c]) ELSE @]
    /\ hPc' = [hPc EXCEPT ![c] = "open"]
    /\ UNCHANGED <<hReq, hOut, hCalls, hReads, trig, srvPc, rootDone,
                   listenerOpen, poolCancelled>>
    /\ UNCHANGED loopVars
    /\ UNCHANGED notPhVars

\* sendResponse / sendError: the Response and "\n" are written and flushed,
\* and HandleConnection returns; writeOk: the connection takes the bytes
PhRespond(c, writeOk) ==
    /\ hPc[c] = "respond"
    /\ hResp' = [hResp EXCEPT ![c] = IF writeOk THEN Append(@, hOut[c]) ELSE @]
    /\ hPc' = [hPc EXCEPT ![c] = IF writeOk THEN "returned" ELSE "write_failed"]
    /\ UNCHANGED <<hReq, hOut, hCalls, hReads, trig, srvPc, rootDone,
                   listenerOpen, poolCancelled>>
    /\ UNCHANGED loopVars
    /\ UNCHANGED notPhVars

\* Start reaches its select after it has started the goroutines of
\* startBroadcast and acceptConnections
SrvEnterSelect ==
    /\ srvPc = "starting"
    /\ srvPc' = "select"
    /\ refreshLoop' = "running"
    /\ acceptLoop' = "running"
    /\ UNCHANGED <<hPc, hReq, hOut, hResp, hCalls, hReads, trig, rootDone,
                   listenerOpen, poolCancelled>>
    /\ UNCHANGED notPhVars

\* triggerShutdown in the goroutine started by handleShutdown for
\* connection c: the send on the unbuffered s.shutdownChan goes through
\* when Start waits in its select, and the default case is taken otherwise
TriggerShutdown(c) ==
    /\ trig[c] = "spawned"
    /\ IF srvPc = "select"
         THEN /\ trig' = [trig EXCEPT ![c] = "sent"]
              /\ srvPc' = "listener"
         ELSE /\ trig' = [trig EXCEPT ![c] = "dropped"]
              /\ UNCHANGED srvPc
    /\ UNCHANGED <<hPc, hReq, hOut, hResp, hCalls, hReads, rootDone,
                   listenerOpen, poolCancelled>>
    /\ UNCHANGED loopVars
    /\ UNCHANGED notPhVars

\* the context given to Start is cancelled
SrvCtxCancel ==
    /\ ~rootDone
    /\ rootDone' = TRUE
    /\ UNCHANGED <<hPc, hReq, hOut, hResp, hCalls, hReads, trig, srvPc,
                   listenerOpen, poolCancelled>>
    /\ UNCHANGED loopVars
    /\ UNCHANGED notPhVars

\* Start: case <-ctx.Done()
SrvSelectCtx ==
    /\ srvPc = "select"
    /\ rootDone
    /\ srvPc' = "listener"
    /\ UNCHANGED <<hPc, hReq, hOut, hResp, hCalls, hReads, trig, rootDone,
                   listenerOpen, poolCancelled>>
    /\ UNCHANGED loopVars
    /\ UNCHANGED notPhVars

\* shutdown: s.listener.Close()
SrvCloseListener ==
    /\ srvPc = "listener"
    /\ listenerOpen' = FALSE
    /\ srvPc' = "pool"
    /\ UNCHANGED <<hPc, hReq, hOut, hResp, hCalls, hReads, trig, rootDone,
                   poolCancelled>>
    /\ UNCHANGED loopVars
    /\ UNCHANGED notPhVars

\* shutdown: s.pool.Close() cancels the pool's context
SrvPoolCancel ==
    /\ srvPc = "pool"
    /\ poolCancelled' = TRUE
    /\ srvPc' = "pool_wait"
    /\ UNCHANGED <<hPc, hReq, hOut, hResp, hCalls, hReads, trig, rootDone,
                   listenerOpen>>
    /\ UNCHANGED loopVars
    /\ UNCHANGED notPhVars

\* a connection whose HandleConnection is running
HandlerRunning(c) == hPc[c] \in {"open", "dispatch", "respond"}

\* p.ctx of the daemon's pool is done: NewConnectionPool derives it from the
\* context given to Start with context.WithCancel, and Close calls p.cancel()
PoolCtxDone == poolCancelled \/ rootDone

\* reqCtx of HandleConnection for connection c is done.  It is
\* context.WithTimeout(ctx, 30 s) of the ctx the pool hands to the handler,
\* which is p.ctx; expired: the 30 s are over
ReqCtxDone(c, expired) ==
    /\ hPc[c] = "dispatch"
    /\ (expired \/ PoolCtxDone)

\* shutdown: s.pool.Close() returns: nil when every handler has finished,
\* or, with timeout, an error when the 30 s of grace are over, which
\* shutdown logs before it goes on
SrvPoolWait(timeout) ==
    /\ srvPc = "pool_wait"
    /\ timeout \/ \A c \in PhConns : ~HandlerRunning(c)
    /\ srvPc' = IF timeout THEN "lb_logged" ELSE "lb"
    /\ UNCHANGED <<hPc, hReq, hOut, hResp, hCalls, hReads, trig, rootDone,
                   listenerOpen, poolCancelled>>
    /\ UNCHANGED loopVars
    /\ UNCHANGED notPhVars

\* shutdown: s.localbase.Shutdown(ctx), and Start returns
SrvLbShutdown ==
    /\ srvPc \in {"lb", "lb_logged"}
    /\ srvPc' = "stopped"
    /\ UNCHANGED <<hPc, hReq, hOut, hResp, hCalls, hReads, trig, rootDone,
                   listenerOpen, poolCancelled>>
    /\ UNCHANGED loopVars
    /\ UNCHANGED notPhVars

\* acceptConnections: s.listener.Accept() fails because the listener is
\* closed; the loop returns when ctx is done, and logs the error and calls
\* Accept again when it is not
AcceptLoopExit ==
    /\ acceptLoop = "running"
    /\ ~listenerOpen
    /\ rootDone
    /\ acceptLoop' = "exited"
    /\ UNCHANGED <<hPc, hReq, hOut, hResp, hCalls, hReads, trig, srvPc, rootDone,
                   listenerOpen, poolCancelled, refreshLoop>>
    /\ UNCHANGED notPhVars

\* startBroadcast: case <-ctx.Done() of its select
RefreshLoopExit ==
    /\ refreshLoop = "running"
    /\ rootDone
    /\ refreshLoop' = "exited"
    /\ UNCHANGED <<hPc, hReq, hOut, hResp, hCalls, hReads, trig, srvPc, rootDone,
                   listenerOpen, poolCancelled, acceptLoop>>
    /\ UNCHANGED notPhVars

PhNext ==
    \/ \E c \in PhConns : PhAccept(c)
    \/ \E c \in PhConns, refuse \in BOOLEAN : PhAdmit(c, refuse)
    \/ \E c \in PhConns, r \in Requests : PhRead(c, r)
    \/ \E c \in PhConns, svc \in AddOutcomes \cup RemoveOutcomes : PhProcess(c, svc)
    \/ \E c \in PhConns, writeOk \in BOOLEAN : PhRespond(c, writeOk)
    \/ \E c \in PhConns : TriggerShutdown(c)
    \/ SrvEnterSelect
    \/ SrvCtxCancel
    \/ SrvSelectCtx
    \/ SrvCloseListener
    \/ SrvPoolCancel
    \/ \E timeout \in BOOLEAN : SrvPoolWait(timeout)
    \/ SrvLbShutdown
    \/ AcceptLoopExit
    \/ RefreshLoopExit

Init == PoolInit /\ LbInit /\ CoreInit /\ PhInit

PhSpec == Init /\ [][PhNext]_vars

\* a step of some running HandleConnection
HandlerStep ==
    \E c \in PhConns :
        \/ \E r \in Requests : PhRead(c, r)
        \/ \E svc \in AddOutcomes \cup RemoveOutcomes : PhProcess(c, svc)
        \/ \E writeOk \in BOOLEAN : PhRespond(c, writeOk)

\* The handlers under a fair scheduler: a read returns (the connection has
\* a 30 s read deadline), a method returns or panics (its context has a
\* 30 s timeout), and a write returns (30 s write deadline).  A handler
\* takes at most three steps, so that fairness for the steps of all
\* handlers together lets each of them finish.
PhFairness == WF_vars(HandlerStep)

PhFairSpec == Init /\ [][PhNext]_vars /\ PhFairness

CoreSpec == Init /\ [][CoreNext]_vars

LbSpec == Init /\ [][LbNext]_vars

PoolSpec == Init /\ [][PoolNext]_vars

\* The pool under a fair scheduler: every goroutine that can take its next
\* step eventually takes it, and the supplied handler terminates (in the
\* daemon it is bounded by the 30 s deadlines set in handleConnection).
PoolFairness ==
    \A c \in Conns :
        /\ WF_vars(HandlerEnds(c))
        /\ WF_vars(DeferClose(c))
        /\ WF_vars(DeferRelease(c))
        /\ WF_vars(DeferCount(c))
        /\ WF_vars(DeferWgDone(c))

PoolFairSpec == Init /\ [][PoolNext]_vars /\ PoolFairness

(***************************************************************************)
(* Claims about the admission pool                                         *)
(***************************************************************************)
\* a connection whose Accept holds a slot or whose handler goroutine lives
Busy(c) == pc[c] \in {"acc_count", "acc_wg", "acc_go", "h_run", "d_close",
                      "d_sem", "d_count", "d_wg"}

\* no Accept is in progress and every spawned handler has terminated
Quiescent == \A c \in Conns : pc[c] \in {"new", "rejected", "done"}

\* handlers that were started and still hold their slot
HandlersInFlight == {c \in Conns : pc[c] \in {"h_run", "d_close", "d_sem"}}

\* handler invocations that are executing p.handler
HandlersExecuting == {c \in Conns : pc[c] = "h_run"}

\* C1: once every spawned handler has terminated, however it ended (return,
\* error, panic), ActiveConnections() is 0 and every slot is free again, so
\* that MaxConnections further Accept calls can each acquire one.
C1_SlotsReturn ==
    Quiescent => /\ ActiveConnections = 0
                 /\ semaphore = 0
                 /\ wg = 0

\* C1 witness: all handlers have terminated, one of them by a panic, one by
\* an error and one by a normal return.
C1_Witness ==
    /\ Quiescent
    /\ \E a, b, c \in Conns :
          /\ pc[a] = "done" /\ outcome[a] = "panic"
          /\ pc[b] = "done" /\ outcome[b] = "error"
          /\ pc[c] = "done" /\ outcome[c] = "return"

\* the second select of Accept for connection c is decided in this step
Decides(c) == pc[c] = "acc_select" /\ pc'[c] # "acc_select"

\* the offered connection is turned away: closed, no handler spawned
TurnedAway(c, err) ==
    /\ acceptResult'[c] = err
    /\ connClosed'[c] = 1
    /\ pc'[c] = "rejected"
    /\ semaphore' = semaphore /\ activeCount' = activeCount /\ wg' = wg

\* C2 as stated: with MaxConnections handlers in flight a further Accept is
\* turned away with "pool is full" (closed, no handler spawned).
C2_Original ==
    [][\A c \in Conns :
         (Decides(c) /\ Cardinality(HandlersInFlight) = MaxConnections)
             => TurnedAway(c, "pool_full")]_vars

\* C2 amended: with MaxConnections handlers in flight a further Accept never
\* waits (its select can always be decided), closes the offered connection
\* and spawns no handler; the error is "pool is full" when the pool's
\* cancellation has not been signalled and "shutting down" when it has.
C2_FullPoolRejects ==
    /\ [](\A c \in Conns : pc[c] = "acc_select" => ENABLED AcceptSelect(c))
    /\ [][\A c \in Conns :
           (Decides(c) /\ Cardinality(HandlersInFlight) = MaxConnections)
               => IF ctxDone THEN TurnedAway(c, "shutting_down")
                             ELSE TurnedAway(c, "pool_full")]_vars

\* C2 witness: a connection was turned away with "pool is full" while
\* MaxConnections handlers are in flight and the pool is not shutting down.
C2_Witness ==
    /\ ~ctxDone
    /\ Cardinality(HandlersInFlight) = MaxConnections
    /\ \E c \in Conns : /\ acceptResult[c] = "pool_full"
                         /\ pc[c] = "rejected"
                         /\ connClosed[c] = 1

\* C3: at most MaxConnections handler invocations execute at any moment,
\* under every interleaving of Accept calls and handler completions, and
\* every handler that was started completes and is counted out.
C3_BoundedAndCompletes ==
    /\ [](Cardinality(HandlersExecuting) <= MaxConnections)
    /\ \A c \in Conns : (pc[c] = "h_run") ~> (pc[c] = "done")

\* C3 witness: MaxConnections handlers execute at once while another
\* connection has already been through the pool.
C3_Witness ==
    /\ Cardinality(HandlersExecuting) = MaxConnections
    /\ \E c \in Conns : pc[c] = "done"

(***************************************************************************)
(* Claims about the orchestrator with one registry lock.  Every step of    *)
(* LbNext writes the operation it performed to lbLast, so lbLast' names    *)
(* the operation of a step.                                                *)
(***************************************************************************)
\* how often fn was called on handle h in the call log calls
CountCalls(calls, fn, h) ==
    Cardinality({i \in DOMAIN calls : calls[i].fn = fn /\ calls[i].h = h})

\* the call log has a call of fn with outcome ok
HasCall(calls, fn, ok) ==
    \E i \in DOMAIN calls : calls[i].fn = fn /\ calls[i].ok = ok

MyappLocal == <<"myapp", ".", "local">>

\* C4: when AddServerBlock fails during Add, Add returns an error, the
\* registry has no entry for the domain afterwards (and is what it was), and
\* Shutdown is called exactly once on the advertisement that the same Add
\* registered.
C4_RollbackOnRouteFailure ==
    [][(lbLast'.op = "Add" /\ HasCall(lbLast'.calls, "AddServerBlock", FALSE))
             => /\ lbLast'.err # "nil"
                /\ FullDomain(lbLast'.domain) \notin DOMAIN records'
                /\ records' = records
                /\ lbLast'.calls[1].fn = "RegisterProxy"
                /\ lbLast'.calls[1].ok
                /\ CountCalls(lbLast'.calls, "Shutdown", lbLast'.calls[1].h) = 1
                /\ \A h \in DOMAIN servers' : h \in HeldBy(records')]_vars

\* C4 witness: with another domain registered, an Add has failed at
\* AddServerBlock and its advertisement was shut down.
C4_Witness ==
    /\ lbLast.op = "Add"
    /\ lbLast.err = "failed to add Caddy server block"
    /\ HasCall(lbLast.calls, "AddServerBlock", FALSE)
    /\ CountCalls(lbLast.calls, "Shutdown", lbLast.calls[1].h) = 1
    /\ FullDomain(lbLast.domain) \notin DOMAIN records
    /\ records # <<>>

\* the step leaves the registry and both collaborators as they were
LbUntouched ==
    /\ records' = records
    /\ servers' = servers
    /\ leaked' = leaked
    /\ routes' = routes

\* C26: when the validation of the domain or of the port fails inside Add,
\* Add returns that error, the registry is unchanged, and neither the
\* advertisement nor the proxy collaborator has been called.
C26_InvalidAddHasNoEffect ==
    [][lbLast'.op = "Add" =>
          \A p \in PortInputs :
              LET d == lbLast'.domain IN
              ((ValidateDomain(d) # "nil" \/ ValidatePort(p) # "nil")
                  /\ LbAdd(d, p, TRUE, TRUE, TRUE))
                 => /\ lbLast'.err = IF ValidateDomain(d) # "nil"
                                       THEN "domain validation failed"
                                       ELSE "port validation failed"
                    /\ lbLast'.calls = NoCall
                    /\ LbUntouched]_vars

\* C26 witness: with a domain registered, an Add has failed at the port
\* validation, without a collaborator call.
C26_Witness ==
    /\ lbLast.op = "Add"
    /\ lbLast.err = "port validation failed"
    /\ lbLast.calls = NoCall
    /\ records # <<>>

CountOutcome(calls, fn, ok) ==
    Cardinality({i \in DOMAIN calls : calls[i].fn = fn /\ calls[i].ok = ok})

\* the keys whose record holds, after the step, a registration made in
\* this step for the record's host
Renewed ==
    {k \in DOMAIN records \cap DOMAIN records' :
        /\ records'[k].server # records[k].server
        /\ records'[k].server \in DOMAIN servers'
        /\ servers'[records'[k].server].active
        /\ servers'[records'[k].server].host = records[k].host}

\* C28: within one refresh pass a re-registration that fails does not end
\* the pass: RegisterProxy is called once for every domain of the registry,
\* and every domain other than those whose call failed holds a new
\* registration when the pass is over.
C28_RefreshGoesOn ==
    [][(lbLast'.op = "Tick" /\ lbLast'.err = "nil")
          => /\ DOMAIN records' = DOMAIN records
             /\ CountOutcome(lbLast'.calls, "RegisterProxy", TRUE)
                   + CountOutcome(lbLast'.calls, "RegisterProxy", FALSE)
                   = Cardinality(DOMAIN records)
             /\ Cardinality(Renewed)
                   = CountOutcome(lbLast'.calls, "RegisterProxy", TRUE)]_vars

\* C28 witness: a refresh pass over two domains is over in which one
\* re-registration failed and the other was made.
C28_Witness ==
    /\ lbLast.op = "Tick"
    /\ Cardinality(DOMAIN records) = 2
    /\ CountOutcome(lbLast.calls, "RegisterProxy", FALSE) = 1
    /\ CountOutcome(lbLast.calls, "RegisterProxy", TRUE) = 1

\* the advertisement of registry name k is announced: by the registration
\* its record holds, or by one that was never torn down
Announced(k) ==
    \/ (k \o <<".">>) \in leaked
    \/ \E h \in DOMAIN servers :
          servers[h].active /\ servers[h].host = k \o <<".">>

\* C5 as stated: between operations a domain is in the registry if and only
\* if its advertisement and its proxy route are both established.
C5_Original ==
    \A d \in DomainInputs :
        FullDomain(d) \in DOMAIN records
            <=> (Announced(FullDomain(d)) /\ FullDomain(d) \in DOMAIN routes)

NamesActive(d) ==
    \/ d \in DOMAIN records
    \/ ~HasSuffix(d, DotLocal) /\ (d \o DotLocal) \in DOMAIN records

\* C7 as stated (for a request that passes validation): Add on a domain that
\* is already Active returns already-registered, leaves the registry
\* unchanged and calls no collaborator.
C7_Original ==
    [][\A d \in DomainInputs, p \in PortInputs, f \in AddFaults :
         ( /\ ValidateDomain(d) = "nil" /\ ValidatePort(p) = "nil"
           /\ NamesActive(d)
           /\ LbAdd(d, p, f[1], f[2], f[3]) )
             => /\ lbLast'.err = "already registered"
                /\ records' = records
                /\ lbLast'.calls = NoCall]_vars

\* C8 as stated: a successful Add("myapp", 3000) on an empty registry makes
\* List return exactly myapp.local (port 3000), and a Remove("myapp") that
\* follows succeeds and leaves List empty.
C8_Original ==
    /\ [][(records = <<>> /\ LbAdd(<<"myapp">>, 3000, TRUE, TRUE, TRUE))
            => /\ LbList' = {MyappLocal}
               /\ records'[MyappLocal].port = 3000]_vars
    /\ [][( /\ lbLast.op = "Add" /\ lbLast.err = "nil"
            /\ lbLast.domain = <<"myapp">>
            /\ LbList = {MyappLocal}
            /\ LbRemove(<<"myapp">>, TRUE, TRUE) )
            => /\ lbLast'.err = "nil"
               /\ LbList' = {}]_vars

\* C10 as stated: when Shutdown has returned, the registry is empty (List
\* returns no records), whatever failed during the Shutdown.
C10_Original == lbLast.op = "Shutdown" => LbList = {}

\* the name ends in the suffix ".local", and what precedes the suffix does
\* not end in it again
EndsInDotLocalOnce(k) ==
    HasSuffix(k, DotLocal) /\ ~HasSuffix(TrimSuffix(k, DotLocal), DotLocal)

\* C32 as stated: every registry key ends in ".local" exactly once; an Add
\* of a name that already ends in ".local" registers that same name.
C32_Original == \A k \in DOMAIN records : EndsInDotLocalOnce(k)

\* C40 as stated: after Shutdown has returned, a refresh tick that follows
\* it registers no advertisement again, for any domain.
C40_Original ==
    [][(lbLast.op = "Shutdown" /\ lbLast'.op = "Tick")
          => ~HasCall(lbLast'.calls, "RegisterProxy", TRUE)]_vars

\* Accept is called for connection c in this step
AcceptStarts(c) == pc[c] = "new" /\ pc'[c] # "new"

\* the pool's cancellation is signalled in this step
CancelSignalled == ~ctxDone /\ ctxDone'

\* C22: once the pool's cancellation has been signalled, by Close or by the
\* parent context, every Accept that starts afterwards closes the offered
\* connection, returns "shutting down" and spawns no handler; the signal
\* itself leaves the handlers admitted earlier running and their slots
\* held.
C22_RefusesAfterCancel ==
    [][/\ \A c \in Conns :
             (AcceptStarts(c) /\ ctxDone)
                 => /\ TurnedAway(c, "shutting_down")
                    /\ \A b \in Conns \ {c} : pc'[b] = pc[b]
       /\ CancelSignalled
             => /\ pc' = pc
                /\ connClosed' = connClosed
                /\ semaphore' = semaphore /\ activeCount' = activeCount]_vars

\* C22 witness: the cancellation is signalled, a connection offered after
\* it was turned away with "shutting down" and closed, and a handler
\* admitted before it is still executing.
C22_Witness ==
    /\ ctxDone
    /\ \E b, c \in Conns :
          /\ b < c
          /\ pc[b] = "h_run" /\ connClosed[b] = 0
          /\ pc[c] = "rejected" /\ acceptResult[c] = "shutting_down"
          /\ connClosed[c] = 1

\* connections that are counted in activeCount: admitted, and their
\* handler has not yet counted itself out
Outstanding == {c \in Conns : pc[c] \in {"acc_wg", "acc_go", "h_run", "d_close",
                                         "d_sem", "d_count"}}

\* the handler goroutine of c is alive
HandlerAlive(c) == pc[c] \in {"h_run", "d_close", "d_sem", "d_count", "d_wg"}

\* Close returns in this step
CloseReturns == closePc = "waiting" /\ closePc' = "returned"

HoldingSlot == {c \in Conns : pc[c] \in {"acc_count", "acc_wg", "acc_go", "h_run",
                                         "d_close", "d_sem"}}

\* C24: every admitted connection gives its slot back and counts itself
\* out exactly once, however its handler ended: at every moment the number
\* of held slots is the number of admitted connections that have not yet
\* released, and the active counter is the number of those that have not
\* yet counted themselves out; neither ever goes below zero.
C24_ReleasedExactlyOnce ==
    /\ semaphore = Cardinality(HoldingSlot)
    /\ activeCount = Cardinality(Outstanding)
    /\ semaphore \in 0 .. MaxConnections
    /\ activeCount >= 0

\* C24 witness: one handler has ended with an error and another with a
\* panic, both have released, and a third connection, admitted into a slot
\* that was given back, holds the only slot in use.
C24_Witness ==
    \E a, b, c \in Conns :
        /\ pc[a] = "done" /\ outcome[a] = "error"
        /\ pc[b] = "done" /\ outcome[b] = "panic"
        /\ pc[c] = "h_run"
        /\ semaphore = 1 /\ activeCount = 1

\* C25: every connection offered to Accept is closed by the pool: one that
\* is turned away is closed when Accept returns its error, and one that is
\* admitted is closed once its handler has terminated, by return, error or
\* panic, which eventually happens; until its handler has terminated the
\* pool does not close it.
C25_EveryConnectionClosed ==
    /\ [](\A c \in Conns :
            /\ pc[c] = "rejected" => connClosed[c] = 1
            /\ pc[c] \in {"d_sem", "d_count", "d_wg", "done"} => connClosed[c] = 1
            /\ pc[c] \in {"acc_select", "acc_count", "acc_wg", "acc_go", "h_run"}
                   => connClosed[c] = 0)
    /\ \A c \in Conns : (pc[c] = "h_run") ~> (connClosed[c] = 1)

\* C25 witness: a connection whose handler panicked has been closed, and so
\* has one that was turned away because the pool was full.
C25_Witness ==
    \E a, b \in Conns :
        /\ pc[a] = "done" /\ outcome[a] = "panic" /\ connClosed[a] = 1
        /\ pc[b] = "rejected" /\ acceptResult[b] = "pool_full"
        /\ connClosed[b] = 1

\* C34 as stated: after Close has returned without error,
\* ActiveConnections() is 0 and no handler is running, also when Accept
\* calls run at the same time as Close.
C34_Original ==
    (closePc = "returned" /\ closeResult.status = "ok")
        => /\ ActiveConnections = 0
           /\ \A c \in Conns : ~HandlerAlive(c)

\* C35 as stated: ActiveConnections() never returns a value greater than
\* MaxConnections.
C35_Original == ActiveConnections <= MaxConnections

\* connections that Accept admitted (it acquired a slot for them) and that
\* the pool has not yet closed
AdmittedOpen ==
    {c \in Conns : pc[c] \notin {"new", "acc_select", "rejected"}
                     /\ connClosed[c] = 0}

\* C36: at every moment at most MaxConnections admitted connections are
\* not yet closed: an admitted connection that is still open holds its
\* slot, and a connection whose slot was given back has been closed.
C36_ClosedBeforeRelease ==
    /\ Cardinality(AdmittedOpen) <= MaxConnections
    /\ AdmittedOpen \subseteq HoldingSlot
    /\ \A c \in Conns : pc[c] \in {"d_count", "d_wg", "done"} => connClosed[c] = 1

\* C36 witness: MaxConnections admitted connections are open, one of them
\* in a slot that an earlier connection gave back after it was closed.
C36_Witness ==
    /\ Cardinality(AdmittedOpen) = MaxConnections
    /\ \E c \in Conns : pc[c] = "done" /\ connClosed[c] = 1

(***************************************************************************)
(* Claims about the orchestrator of core.go                                *)
(***************************************************************************)
\* client c completes a successful Add in this step, and the registry was
\* empty until the Add stored its entry
AddCompletesOnEmpty(c) ==
    /\ call[c].op = "Add" /\ call[c].pc = "add_store"
    /\ call'[c].pc = "idle" /\ call'[c].err = "nil"
    /\ domains = <<>>

\* C9 as stated: for every valid (domain, port) and an empty registry, Add
\* followed by List yields exactly one record, with domain + ".local" and
\* the port given.
C9_Original ==
    [][\A c \in Clients :
         AddCompletesOnEmpty(c)
             => CoreList' = {[Domain |-> call[c].arg \o DotLocal,
                              Port |-> call[c].port]}]_vars

\* C9 amended: for every valid (domain, port) and an empty registry, an Add
\* that succeeds followed by List yields exactly one record; its port is the
\* port given; its domain is the name given when that name already ends in
\* ".local", and the name given with ".local" appended otherwise.
C9_AddThenList ==
    [][\A c \in Clients :
         AddCompletesOnEmpty(c)
             => CoreList' = {[Domain |-> IF HasSuffix(call[c].arg, DotLocal)
                                           THEN call[c].arg
                                           ELSE call[c].arg \o DotLocal,
                              Port |-> call[c].port]}]_vars

\* C9 witness: an Add of a name that already ends in ".local" has succeeded
\* and List holds exactly the one record under that name.
C9_Witness ==
    \E c \in Clients :
        /\ call[c].op = "Add" /\ call[c].pc = "idle" /\ call[c].err = "nil"
        /\ call[c].arg = MyappLocal
        /\ CoreList = {[Domain |-> MyappLocal, Port |-> 3000]}

\* the registry key of the Add that client c is executing
AddKey(c) == CoreKey(call[c].arg)

\* C29 as stated: registry operations never interleave.  An Add that is
\* about to insert its record and return success finds no record under its
\* key (of two concurrent Adds for one domain only one gets that far), and
\* an Add that is about to keep its advertisement finds none kept for its
\* key (the collaborator never holds two registrations for the domain).
C29_Original ==
    \A c \in Clients :
        /\ (call[c].op = "Add" /\ call[c].pc = "add_store")
               => AddKey(c) \notin DOMAIN domains
        /\ (call[c].op = "Add" /\ call[c].pc = "add_server")
               => AddKey(c) \notin DOMAIN mdnsServers

\* the tick of startBroadcast ends in this step, and its getLocalIP()
\* returned an address that differs from the cached one
TickEndsWithNewAddress ==
    refresh.pc = "loop" /\ refresh'.pc = "idle" /\ coreIP' # coreIP

\* C33 as stated: on a tick on which discovery returns an address that
\* differs from the cached one, the advertisements re-registered on that
\* tick are registered under the new address, and the cache holds the new
\* address when the tick ends.
C33_Original ==
    [][TickEndsWithNewAddress
          => /\ refresh.under \subseteq {coreIP'}
             /\ coreIP' \in IPs]_vars

\* Remove of the domain with key k has returned success to some client, k
\* has not been put into l.domains again, and no Add of k is in progress
RemovedForGood(k) ==
    /\ \E c \in Clients :
          /\ call[c].op = "Remove" /\ call[c].pc = "idle" /\ call[c].err = "nil"
          /\ CoreKey(call[c].arg) = k
    /\ k \notin DOMAIN domains
    /\ \A c \in Clients :
          ~(call[c].op = "Add" /\ call[c].pc # "idle" /\ CoreKey(call[c].arg) = k)

\* the refresh pass stores, in this step, the registration it has made for
\* the domain it is at
RefreshStores == refresh.pc = "store" /\ refresh'.pc = "loop"

\* C39 as stated: a refresh pass that runs at the same time as Remove never
\* creates the advertisement of a removed domain again: once Remove(d) has
\* returned and d is not added again, the pass keeps no registration for d.
C39_Original ==
    [][RefreshStores => ~RemovedForGood(refresh.cur)]_vars

(***************************************************************************)
(* Claims about the protocol handler and the daemon's shutdown            *)
(***************************************************************************)
\* ReadBytes delivered a complete line on connection c
LineReceived(c) == hReq[c].wire = "line"

\* HandleConnection for c is over: it returned after its write, its write
\* was refused by the connection, or its method panicked
HandlerOver(c) == hPc[c] \in {"returned", "write_failed", "panicked"}

Decided(c) == hPc[c] \in {"respond", "returned", "write_failed"}

\* the Response of connection c has reached the peer, and it is an error
\* Response with this code
AnsweredWith(c, code) ==
    /\ Len(hResp[c]) = 1
    /\ hResp[c][1].kind = "error"
    /\ hResp[c][1].code = code

\* the handler of c is to send an error Response with this code, and where
\* it has returned it has delivered that Response
Yields(c, code) ==
    /\ Decided(c)
    /\ hOut[c].kind = "error" /\ hOut[c].code = code
    /\ hPc[c] = "returned" => AnsweredWith(c, code)

\* C12: a request whose version differs from ProtocolVersion yields an
\* error Response with code InvalidRequest and its method is never
\* dispatched: no call on the orchestrator and no shutdown trigger, whatever
\* the method named.
C12_VersionMismatch ==
    \A c \in PhConns :
        (LineReceived(c) /\ hReq[c].json = "valid"
            /\ hReq[c].version # ProtocolVersion)
            => /\ Yields(c, ErrorCodeInvalidRequest)
               /\ hCalls[c] = <<>>
               /\ trig[c] = "none"

\* C12 witness: a shutdown request of version "0.1" was answered with
\* InvalidRequest.
C12_Witness ==
    \E c \in PhConns :
        /\ hReq[c] = Line("0.1", "shutdown", NoRequest.domain, NoRequest.port)
        /\ hPc[c] = "returned"
        /\ AnsweredWith(c, ErrorCodeInvalidRequest)

\* a request that passed json.Unmarshal and the version check
WellFormed(c) ==
    /\ LineReceived(c) /\ hReq[c].json = "valid"
    /\ hReq[c].version = ProtocolVersion

\* C13: a well-formed request of the right version whose method is none of
\* ping, add, remove, list, shutdown yields an error Response with code
\* MethodNotFound, without any call on the orchestrator and without a
\* shutdown trigger.
C13_UnknownMethod ==
    \A c \in PhConns :
        (WellFormed(c) /\ hPc[c] # "dispatch"
            /\ hReq[c].method \notin {"ping", "add", "remove", "list", "shutdown"})
            => /\ Yields(c, ErrorCodeMethodNotFound)
               /\ hCalls[c] = <<>>
               /\ trig[c] = "none"

\* C13 witness: a request for the method "status" was answered with
\* MethodNotFound.
C13_Witness ==
    \E c \in PhConns :
        /\ WellFormed(c) /\ hReq[c].method = "status"
        /\ hPc[c] = "returned"
        /\ AnsweredWith(c, ErrorCodeMethodNotFound)

\* C14: a newline-terminated payload that is not valid JSON yields an error
\* Response with code InvalidRequest, without any call on the orchestrator.
C14_InvalidJSON ==
    \A c \in PhConns :
        (LineReceived(c) /\ hReq[c].json # "valid")
            => /\ Yields(c, ErrorCodeInvalidRequest)
               /\ hCalls[c] = <<>>

\* C14 witness: a line that is not JSON was answered with InvalidRequest.
C14_Witness ==
    \E c \in PhConns :
        /\ hReq[c] = BadJSON
        /\ hPc[c] = "returned"
        /\ AnsweredWith(c, ErrorCodeInvalidRequest)

\* C15 as stated: a handler that read and returned without a Response met
\* the end of the stream before any byte; bytes followed by the end of the
\* stream without "\n" are answered with InvalidRequest.
C15_Original ==
    \A c \in PhConns :
        /\ (hReads[c] = 1 /\ hPc[c] = "returned" /\ hResp[c] = <<>>)
               => hReq[c].wire = "eof_empty"
        /\ hReq[c].wire = "eof_partial" => Yields(c, ErrorCodeInvalidRequest)

\* an add request that reached handleAdd and came back from it
AddHandled(c) ==
    WellFormed(c) /\ hReq[c].method = "add" /\ hPc[c] # "dispatch"

AddTyped(c) ==
    AddHandled(c) /\ hReq[c].domain.t = "string" /\ hReq[c].port.t = "number"

\* C17: for an add request the domain is validated first, the port second,
\* and Add is called last: an invalid domain yields ValidationError with
\* the domain validator's message as data whatever the port is, an invalid
\* port with a valid domain yields ValidationError with the port
\* validator's message as data, and Add is called only when both passed.
C17_ValidationOrder ==
    \A c \in PhConns :
        AddTyped(c) =>
            LET domain == hReq[c].domain.v
                port == IntOfFloat(hReq[c].port.v)
            IN
            /\ ValidateDomain(domain) # "nil"
                   => /\ Yields(c, ErrorCodeValidation)
                      /\ hOut[c].message = "invalid domain"
                      /\ hOut[c].data = ValidateDomain(domain)
                      /\ hCalls[c] = <<>>
            /\ (ValidateDomain(domain) = "nil" /\ ValidatePort(port) # "nil")
                   => /\ Yields(c, ErrorCodeValidation)
                      /\ hOut[c].message = "invalid port"
                      /\ hOut[c].data = ValidatePort(port)
                      /\ hCalls[c] = <<>>
            /\ hCalls[c] # <<>>
                   => /\ ValidateDomain(domain) = "nil"
                      /\ ValidatePort(port) = "nil"
                      /\ hCalls[c] = <<SvcCall("Add", domain, port)>>

\* C17 witness: an add of a reserved name on a well-known port, both
\* invalid, was answered with the domain validator's message.
C17_Witness ==
    \E c \in PhConns :
        /\ AddTyped(c)
        /\ ValidateDomain(hReq[c].domain.v) # "nil"
        /\ ValidatePort(IntOfFloat(hReq[c].port.v)) # "nil"
        /\ hPc[c] = "returned"
        /\ AnsweredWith(c, ErrorCodeValidation)
        /\ hResp[c][1].data = ValidateDomain(hReq[c].domain.v)

\* the call on the orchestrator made for c came back with an error
OrchestratorFailed(c) ==
    /\ Decided(c)
    /\ hCalls[c] # <<>>
    /\ hOut[c].kind = "error"

\* C18 as stated: when Add or Remove fails on the orchestrator, the error
\* Response carries the orchestrator's error as it is and is no
\* InternalError.
C18_Original ==
    \A c \in PhConns :
        (OrchestratorFailed(c) /\ hReq[c].method \in {"add", "remove"})
            => /\ hOut[c].code # ErrorCodeInternalError
               /\ hOut[c].message \in AddOutcomes \cup RemoveOutcomes

\* C19 as stated: a fault raised while the method executes, a panic
\* included, ends in an InternalError Response; the connection is never
\* closed without one.
C19_Original ==
    \A c \in PhConns :
        (WellFormed(c) /\ hPc[c] = "panicked")
            => AnsweredWith(c, ErrorCodeInternalError)

\* C20 as stated: while the acknowledgement of the shutdown request whose
\* signal Start received is still to be written, neither the listener nor
\* the pool is being torn down.
C20_Original ==
    \A c \in PhConns :
        (trig[c] = "sent" /\ hPc[c] = "respond")
            => /\ listenerOpen
               /\ ~poolCancelled

\* C21: a ping request of the right version gets a success Response whose
\* result holds the status "ok" and ProtocolVersion; the handler answers it
\* without any call on the orchestrator, so that neither the registry nor
\* the state of a collaborator has a part in it or is changed by it, and
\* without a shutdown trigger.
C21_PingAnswers ==
    \A c \in PhConns :
        (WellFormed(c) /\ hReq[c].method = "ping" /\ hPc[c] # "dispatch")
            => /\ Decided(c)
               /\ hOut[c] = Success([NoResult EXCEPT !.status = "ok",
                                                     !.version = "1.0"])
               /\ hPc[c] = "returned" => hResp[c] = <<hOut[c]>>
               /\ hCalls[c] = <<>>
               /\ trig[c] = "none"

\* C21 witness: a ping was answered with a result of status "ok" and
\* version "1.0".
C21_Witness ==
    \E c \in PhConns :
        /\ WellFormed(c) /\ hReq[c].method = "ping"
        /\ hPc[c] = "returned"
        /\ Len(hResp[c]) = 1
        /\ hResp[c][1].kind = "result"
        /\ hResp[c][1].result.status = "ok"
        /\ hResp[c][1].result.version = "1.0"

\* the goroutine has returned, or its context is cancelled, so that the
\* next turn of its loop returns
ExitedOrTold(loop) == loop = "exited" \/ rootDone

\* C30 as stated: when the shutdown sequence has finished, whether it was
\* started by the root context or by a shutdown request, the pool refuses
\* admissions and neither the accept loop nor the refresh loop keeps
\* running: each has returned or has been told to.
C30_Original ==
    srvPc = "stopped"
        => /\ poolCancelled
           /\ ~listenerOpen
           /\ ExitedOrTold(acceptLoop)
           /\ ExitedOrTold(refreshLoop)

\* C31 as stated: while a dispatched request runs and its 30 s have not
\* expired, the context under which its method and the collaborator calls
\* execute is not cancelled, whatever the pool and the daemon do.
C31_Original ==
    \A c \in PhConns : hPc[c] = "dispatch" => ~ReqCtxDone(c, FALSE)

\* C37 as stated: in the shutdown sequence the listener is closed before
\* the pool is closed and the pool before the orchestrator is shut down,
\* and when the pool's Close has returned within its grace period the
\* orchestrator's Shutdown is invoked with no admitted handler running.
C37_Original ==
    /\ srvPc \in {"pool", "pool_wait", "lb", "lb_logged", "stopped"} => ~listenerOpen
    /\ srvPc \in {"pool_wait", "lb", "lb_logged", "stopped"} => poolCancelled
    /\ srvPc = "lb" => \A c \in PhConns : ~HandlerRunning(c)

\* C38 as stated: the signal of triggerShutdown is never lost: when its
\* send was given up, the shutdown sequence is already under way.
C38_Original ==
    \A c \in PhConns : trig[c] = "dropped" => srvPc \notin {"starting", "select"}

====
